---- MODULE Spec2Model ----
(***************************************************************************)
(* Model of the boundary-aware text chunker of slack-dic                   *)
(* (src/app/ingestion/chunk.py): protected-span detection, break-point     *)
(* selection, the chunk_text main loop and the small-chunk merger.         *)
(*                                                                         *)
(* A text is a sequence of characters, each a string.  Offsets are the     *)
(* 0-based offsets of the Python source; At(text, i) is text[i].           *)
(***************************************************************************)
EXTENDS Integers, Sequences, FiniteSets, TLC

(***************************************************************************)
(* Bounds of the model.                                                    *)
(***************************************************************************)
\* longest text of the exhaustive family (all texts over Alphabet)
MaxLen == 3
\* largest chunk_size tried on the exhaustive family; overlap stays below it
MaxSize == 3
\* most segments of a text of the segment family
MaxSegs == 3
\* most repetitions of a unit in a text of the repetition families
MaxReps == 6

(***************************************************************************)
(* Python primitives.                                                      *)
(***************************************************************************)
Min(a, b) == IF a <= b THEN a ELSE b

Max(a, b) == IF a >= b THEN a ELSE b

\* int(n / d) for d > 0: Python's int() truncates toward zero
TruncDiv(n, d) == IF n >= 0 THEN n \div d ELSE 0 - ((0 - n) \div d)

\* Optional values: None is the empty sequence, Some(v) a one-element one
None == << >>

Some(v) == << v >>

At(text, i) == text[i + 1]

\* str.strip() and the whitespace class of the regexes, over the characters
\* of the model
Whitespace == {" ", "\n", "\t"}

\* text[a:b] with Python's slice semantics (negative offsets count from
\* the end, offsets are clamped to the text)
SliceIndex(n, len) == IF n < 0 THEN Max(n + len, 0) ELSE Min(n, len)

PySlice(text, a, b) ==
    LET lo == SliceIndex(a, Len(text))
        hi == SliceIndex(b, Len(text))
    IN  IF lo >= hi THEN << >> ELSE SubSeq(text, lo + 1, hi)

\* text.lstrip(), text.rstrip() and text.strip()
RECURSIVE PyLStrip(_)
PyLStrip(text) ==
    IF text # << >> /\ Head(text) \in Whitespace THEN PyLStrip(Tail(text)) ELSE text

RECURSIVE PyRStrip(_)
PyRStrip(text) ==
    IF text # << >> /\ text[Len(text)] \in Whitespace
    THEN PyRStrip(SubSeq(text, 1, Len(text) - 1))
    ELSE text

\* text.lstrip() in place of text.strip()
PyLStripOnly(text) == PyLStrip(text)

PyStrip(text) == PyLStrip(PyRStrip(text))

\* text[pos:pos+len(lit)] == lit
StartsWith(text, pos, lit) ==
    /\ pos >= 0
    /\ pos + Len(lit) <= Len(text)
    /\ \A k \in 1..Len(lit) : text[pos + k] = lit[k]

\* The offset at which a greedy run of characters outside stop, begun at
\* pos, ends: the first offset >= pos holding a stop character, else len.
RunEnd(text, pos, stop) ==
    LET ends == {q \in pos..Len(text) : q = Len(text) \/ At(text, q) \in stop}
    IN  CHOOSE q \in ends : \A r \in ends : q <= r

\* The same for a greedy run of characters inside a class.
ClassRunEnd(text, pos, class) ==
    LET ends == {q \in pos..Len(text) : q = Len(text) \/ At(text, q) \notin class}
    IN  CHOOSE q \in ends : \A r \in ends : q <= r

(***************************************************************************)
(* The four protected patterns (chunk.py lines 10-16).  Each XMatch gives  *)
(* the end offset of the regex's match begun at pos, or None.              *)
(***************************************************************************)
\* The backtick, which a TLA+ string cannot hold, is the model character "bt"
Backtick == "bt"

Fence == <<Backtick, Backtick, Backtick>>

\* CODE_BLOCK_PATTERN: a fence of three backticks, a lazy run of any
\* characters, a fence; lazy, so the nearest closing fence ends the match
CodeBlockMatch(text, pos) ==
    IF ~StartsWith(text, pos, Fence) THEN None
    ELSE LET closes == {q \in (pos + 3)..Len(text) : StartsWith(text, q, Fence)}
         IN  IF closes = {} THEN None
             ELSE Some((CHOOSE q \in closes : \A r \in closes : q <= r) + 3)

\* INLINE_CODE_PATTERN: a backtick, one or more characters that are neither
\* a backtick nor a newline, a backtick.  The greedy run ends at a backtick,
\* a newline or the end of the text; only a backtick closes the match
InlineCodeMatch(text, pos) ==
    IF ~StartsWith(text, pos, <<Backtick>>) THEN None
    ELSE LET q == RunEnd(text, pos + 1, {Backtick, "\n"})
         IN  IF q > pos + 1 /\ StartsWith(text, q, <<Backtick>>) THEN Some(q + 1)
             ELSE None

\* The scheme of a URL, http:// or https://, giving the offset after it
SchemeEnd(text, pos) ==
    IF ~StartsWith(text, pos, <<"h", "t", "t", "p">>) THEN None
    ELSE LET p == IF StartsWith(text, pos + 4, <<"s">>) THEN pos + 5 ELSE pos + 4
         IN  IF StartsWith(text, p, <<":", "/", "/">>) THEN Some(p + 3) ELSE None

\* Plain URL: the scheme, then one or more characters that are neither
\* whitespace nor one of < > [ ] ( )
PlainUrlMatch(text, pos) ==
    LET sch == SchemeEnd(text, pos)
    IN  IF sch = None THEN None
        ELSE LET q == RunEnd(text, sch[1], Whitespace \cup {"<", ">", "[", "]", "(", ")"})
             IN  IF q > sch[1] THEN Some(q) ELSE None

\* Slack URL: <, the scheme, one or more characters other than > and |,
\* optionally | and one or more characters other than >, then >
SlackUrlMatch(text, pos) ==
    IF ~StartsWith(text, pos, <<"<">>) THEN None
    ELSE LET sch == SchemeEnd(text, pos + 1)
         IN  IF sch = None THEN None
             ELSE LET q == RunEnd(text, sch[1], {">", "|"})
                  IN  IF q = sch[1] THEN None
                      ELSE IF StartsWith(text, q, <<">">>) THEN Some(q + 1)
                      ELSE IF StartsWith(text, q, <<"|">>)
                           THEN LET r == RunEnd(text, q + 1, {">"})
                                IN  IF r > q + 1 /\ StartsWith(text, r, <<">">>)
                                    THEN Some(r + 1) ELSE None
                      ELSE None

\* URL_PATTERN: the plain alternative is tried first
UrlMatch(text, pos) ==
    IF PlainUrlMatch(text, pos) # None THEN PlainUrlMatch(text, pos)
    ELSE SlackUrlMatch(text, pos)

\* LIST_ITEM_PATTERN with re.MULTILINE: at the start of a line, any
\* whitespace, a bullet (-, * or U+2022, the model character "u2022"), one
\* or more whitespace, one or more characters other than a newline, the end
\* of a line.  Whitespace matches a newline too; the whitespace after the
\* bullet gives back characters until the rest finds a character that is
\* not a newline; the rest then runs to the end of that line.
ListItemMatch(text, pos) ==
    IF ~(pos = 0 \/ (pos <= Len(text) /\ At(text, pos - 1) = "\n")) THEN None
    ELSE LET b == ClassRunEnd(text, pos, Whitespace)
         IN  IF ~(b < Len(text) /\ At(text, b) \in {"-", "*", "u2022"}) THEN None
             ELSE LET w == ClassRunEnd(text, b + 1, Whitespace)
                      rs == {r \in (b + 2)..w : r < Len(text) /\ At(text, r) # "\n"}
                  IN  IF rs = {} THEN None
                      ELSE Some(RunEnd(text, CHOOSE r \in rs : \A x \in rs : r >= x,
                                       {"\n"}))

PatternMatch(pat, text, pos) ==
    CASE pat = "code_block" -> CodeBlockMatch(text, pos)
      [] pat = "inline_code" -> InlineCodeMatch(text, pos)
      [] pat = "url" -> UrlMatch(text, pos)
      [] pat = "list_item" -> ListItemMatch(text, pos)

\* pattern.finditer(text) from offset pos on: the matches, left to right,
\* each search resuming at the end of the match before
RECURSIVE FindIter(_, _, _)
FindIter(pat, text, pos) ==
    LET starts == {p \in pos..Len(text) : PatternMatch(pat, text, p) # None}
    IN  IF starts = {} THEN << >>
        ELSE LET p == CHOOSE q \in starts : \A r \in starts : q <= r
                 e == PatternMatch(pat, text, p)[1]
             IN  << <<p, e>> >> \o FindIter(pat, text, e)

\* the matches of the four patterns, in the order chunk.py lines 43-57
\* append them
RawRanges(text) ==
    FindIter("code_block", text, 0) \o FindIter("inline_code", text, 0)
        \o FindIter("url", text, 0) \o FindIter("list_item", text, 0)

\* protected.sort(key=lambda x: x[0]): a stable sort by start offset
RECURSIVE SortByStart(_)
SortByStart(rs) ==
    IF rs = << >> THEN << >>
    ELSE LET front == SortByStart(SubSeq(rs, 1, Len(rs) - 1))
             r == rs[Len(rs)]
             k == Cardinality({i \in 1..Len(front) : front[i][1] <= r[1]})
         IN  SubSeq(front, 1, k) \o << r >> \o SubSeq(front, k + 1, Len(front))

\* MergeWalk with line 68 as start < last_end: ranges that touch are kept
\* apart
RECURSIVE MergeWalkStrict(_, _)
MergeWalkStrict(merged, rest) ==
    IF rest = << >> THEN merged
    ELSE LET r == Head(rest)
             last == merged[Len(merged)]
         IN  IF r[1] < last[2]
             THEN MergeWalkStrict([merged EXCEPT ![Len(merged)] =
                                      <<last[1], Max(last[2], r[2])>>], Tail(rest))
             ELSE MergeWalkStrict(Append(merged, r), Tail(rest))

\* the walk of chunk.py lines 66-72 over the sorted ranges
RECURSIVE MergeWalk(_, _)
MergeWalk(merged, rest) ==
    IF rest = << >> THEN merged
    ELSE LET r == Head(rest)
             last == merged[Len(merged)]
         IN  IF r[1] <= last[2]
             THEN MergeWalk([merged EXCEPT ![Len(merged)] =
                                <<last[1], Max(last[2], r[2])>>], Tail(rest))
             ELSE MergeWalk(Append(merged, r), Tail(rest))

\* chunk.py lines 59-74: sort the raw ranges and coalesce them
MergeRanges(protected) ==
    IF protected = << >> THEN << >>
    ELSE LET sorted == SortByStart(protected)
         IN  MergeWalk(<< Head(sorted) >>, Tail(sorted))

FindProtectedRanges(text) == MergeRanges(RawRanges(text))

\* _get_protected_range_at: the walk stops at the first range that starts
\* after position
RECURSIVE GetProtectedRangeFrom(_, _, _)
GetProtectedRangeFrom(position, protected_ranges, k) ==
    IF k > Len(protected_ranges) THEN None
    ELSE IF protected_ranges[k][1] <= position /\ position < protected_ranges[k][2]
         THEN Some(protected_ranges[k])
    ELSE IF protected_ranges[k][1] > position THEN None
    ELSE GetProtectedRangeFrom(position, protected_ranges, k + 1)

GetProtectedRangeAt(position, protected_ranges) ==
    GetProtectedRangeFrom(position, protected_ranges, 1)

(***************************************************************************)
(* _find_break_point (chunk.py lines 87-178).                              *)
(***************************************************************************)
\* best_priority before any candidate is seen
NoPriority == 100

\* BreakTypeAt with the sentence break one character further on
BreakTypeAtPastNext(text, i) ==
    IF i < Len(text) - 1 /\ PySlice(text, i, i + 2) = <<"\n", "\n">>
        THEN Some(<<1, i + 2>>)
    ELSE IF i > 0 /\ At(text, i - 1) \in {".", "!", "?"} /\ At(text, i) \in {" ", "\n"}
        THEN Some(<<2, i + 2>>)
    ELSE IF At(text, i) = "\n" THEN Some(<<3, i + 1>>)
    ELSE IF At(text, i) = " " THEN Some(<<4, i + 1>>)
    ELSE None

\* the break type at offset i: <<priority, break_pos>>, or None
BreakTypeAt(text, i) ==
    IF i < Len(text) - 1 /\ PySlice(text, i, i + 2) = <<"\n", "\n">>
        THEN Some(<<1, i + 2>>)
    ELSE IF i > 0 /\ At(text, i - 1) \in {".", "!", "?"} /\ At(text, i) \in {" ", "\n"}
        THEN Some(<<2, i + 1>>)
    ELSE IF At(text, i) = "\n" THEN Some(<<3, i + 1>>)
    ELSE IF At(text, i) = " " THEN Some(<<4, i + 1>>)
    ELSE None

\* TakesCandidate without the test of line 155
TakesCandidateUnchecked(c, protected_ranges, best_priority) ==
    /\ c # None
    /\ c[1][1] < best_priority

\* TakesCandidate with line 155 as priority <= best_priority: a later
\* candidate of the same priority replaces the one held
TakesCandidateNonStrict(c, protected_ranges, best_priority) ==
    /\ c # None
    /\ GetProtectedRangeAt(c[1][2] - 1, protected_ranges) = None
    /\ c[1][1] <= best_priority

\* a candidate is taken when the character before its break is unprotected
\* and its priority is strictly better than the best so far
TakesCandidate(c, protected_ranges, best_priority) ==
    /\ c # None
    /\ GetProtectedRangeAt(c[1][2] - 1, protected_ranges) = None
    /\ c[1][1] < best_priority

\* the backward scan, for i in range(max_end, search_start, -1), taken from
\* one offset that lies outside every span and has a break type to the
\* next: the offsets in between are passed over by lines 128-129 and 152
\* with best_break and best_priority as they are
RECURSIVE ScanBack(_, _, _, _, _, _)
ScanBack(text, i, search_start, protected_ranges, best_break, best_priority) ==
    LET live == {k \in (search_start + 1)..i :
                    /\ GetProtectedRangeAt(k, protected_ranges) = None
                    /\ BreakTypeAt(text, k) # None}
    IN  IF live = {} THEN best_break
        ELSE LET k == CHOOSE x \in live : \A y \in live : x >= y
                 c == BreakTypeAt(text, k)
             IN  IF TakesCandidate(c, protected_ranges, best_priority)
                 THEN IF c[1][1] <= 2 THEN Some(c[1][2])
                      ELSE ScanBack(text, k - 1, search_start, protected_ranges,
                                    Some(c[1][2]), c[1][1])
                 ELSE ScanBack(text, k - 1, search_start, protected_ranges,
                               best_break, best_priority)

\* FallbackSpace over the back half only, as range(max_end, search_start, -1)
FallbackSpaceBackHalf(text, start, max_end, protected_ranges) ==
    LET search_start == start + TruncDiv(max_end - start, 2)
        hits == {i \in (search_start + 1)..max_end :
                    At(text, i) = " " /\ GetProtectedRangeAt(i, protected_ranges) = None}
    IN  IF hits = {} THEN None
        ELSE Some((CHOOSE i \in hits : \A j \in hits : i >= j) + 1)

\* the fallback scan, for i in range(max_end, start, -1): the first i met
\* (the greatest) that holds an unprotected space
FallbackSpace(text, start, max_end, protected_ranges) ==
    LET hits == {i \in (start + 1)..max_end :
                    At(text, i) = " " /\ GetProtectedRangeAt(i, protected_ranges) = None}
    IN  IF hits = {} THEN None
        ELSE Some((CHOOSE i \in hits : \A j \in hits : i >= j) + 1)

\* the last resort: max_end, or the end of the range that holds max_end - 1
LastResort(max_end, protected_ranges) ==
    LET holds == {k \in 1..Len(protected_ranges) :
                     protected_ranges[k][1] <= max_end - 1
                         /\ max_end - 1 < protected_ranges[k][2]}
    IN  IF GetProtectedRangeAt(max_end - 1, protected_ranges) # None /\ holds # {}
        THEN protected_ranges[CHOOSE k \in holds : \A j \in holds : k <= j][2]
        ELSE max_end

\* lines 119-178, with max_end already clipped to the start of a range
SearchBreak(text, start, max_end, protected_ranges) ==
    LET search_start == start + TruncDiv(max_end - start, 2)
        best_break == ScanBack(text, max_end, search_start, protected_ranges,
                               None, NoPriority)
        space == FallbackSpace(text, start, max_end, protected_ranges)
    IN  IF best_break # None THEN best_break[1]
        ELSE IF space # None THEN space[1]
        ELSE LastResort(max_end, protected_ranges)

\* FindBreakPoint without the test of line 114: a range that holds max_end
\* is always swallowed, wherever it starts
FindBreakPointAlwaysSwallow(text, start, max_end, protected_ranges) ==
    IF max_end >= Len(text) THEN Len(text)
    ELSE LET protected == GetProtectedRangeAt(max_end, protected_ranges)
         IN  IF protected # None THEN protected[1][2]
             ELSE SearchBreak(text, start, max_end, protected_ranges)

\* FindBreakPoint without lines 113-117: a range that holds max_end is
\* never swallowed, the search stops at its start
FindBreakPointNoSwallow(text, start, max_end, protected_ranges) ==
    IF max_end >= Len(text) THEN Len(text)
    ELSE LET protected == GetProtectedRangeAt(max_end, protected_ranges)
         IN  IF protected # None
             THEN SearchBreak(text, start, protected[1][1], protected_ranges)
             ELSE SearchBreak(text, start, max_end, protected_ranges)

\* FindBreakPoint with line 114 as max_end < start: a range that begins
\* exactly at start is not swallowed
FindBreakPointStrictSwallow(text, start, max_end, protected_ranges) ==
    IF max_end >= Len(text) THEN Len(text)
    ELSE LET protected == GetProtectedRangeAt(max_end, protected_ranges)
         IN  IF protected # None
             THEN IF protected[1][1] < start THEN protected[1][2]
                  ELSE SearchBreak(text, start, protected[1][1], protected_ranges)
             ELSE SearchBreak(text, start, max_end, protected_ranges)

FindBreakPoint(text, start, max_end, protected_ranges) ==
    IF max_end >= Len(text) THEN Len(text)
    ELSE LET protected == GetProtectedRangeAt(max_end, protected_ranges)
         IN  IF protected # None
             THEN IF protected[1][1] <= start THEN protected[1][2]
                  ELSE SearchBreak(text, start, protected[1][1], protected_ranges)
             ELSE SearchBreak(text, start, max_end, protected_ranges)

(***************************************************************************)
(* _merge_small_chunks (chunk.py lines 181-239).                           *)
(***************************************************************************)
\* current + next_chunk, without the space
JoinNoSeparator(a, b) == a \o b

\* next_chunk + " " + current: the join of lines 208 and 215 the wrong way
\* round
JoinSwapped(a, b) == b \o <<" ">> \o a

\* current + " " + next_chunk
JoinSpace(a, b) == a \o <<" ">> \o b

\* merge_limit without the 50% of line 197
MergeLimitNoSlack(max_chunk_size) == max_chunk_size

\* int(max_chunk_size * 1.5)
MergeLimit(max_chunk_size) == TruncDiv(max_chunk_size * 3, 2)

\* FirstPass without lines 213-218: a small next_chunk is not merged into
\* a current that is large enough
RECURSIVE FirstPassCurrentOnly(_, _, _, _, _, _)
FirstPassCurrentOnly(chunks, i, merged, current, min_chunk_size, merge_limit) ==
    IF i > Len(chunks)
    THEN IF current # << >> THEN Append(merged, current) ELSE merged
    ELSE LET next_chunk == chunks[i]
             fits == Len(current) + Len(next_chunk) + 1 <= merge_limit
         IN  IF Len(current) < min_chunk_size /\ fits
             THEN FirstPassCurrentOnly(chunks, i + 1, merged,
                                       JoinSpace(current, next_chunk),
                                       min_chunk_size, merge_limit)
             ELSE FirstPassCurrentOnly(chunks, i + 1, Append(merged, current),
                                       next_chunk, min_chunk_size, merge_limit)

\* the first pass, lines 202-225: chunks[i..] against the accumulator
RECURSIVE FirstPass(_, _, _, _, _, _)
FirstPass(chunks, i, merged, current, min_chunk_size, merge_limit) ==
    IF i > Len(chunks)
    THEN IF current # << >> THEN Append(merged, current) ELSE merged
    ELSE LET next_chunk == chunks[i]
             fits == Len(current) + Len(next_chunk) + 1 <= merge_limit
         IN  IF Len(current) < min_chunk_size
             THEN IF fits
                  THEN FirstPass(chunks, i + 1, merged, JoinSpace(current, next_chunk),
                                 min_chunk_size, merge_limit)
                  ELSE FirstPass(chunks, i + 1, Append(merged, current), next_chunk,
                                 min_chunk_size, merge_limit)
             ELSE IF Len(next_chunk) < min_chunk_size
             THEN IF fits
                  THEN FirstPass(chunks, i + 1, merged, JoinSpace(current, next_chunk),
                                 min_chunk_size, merge_limit)
                  ELSE FirstPass(chunks, i + 1, Append(merged, current), next_chunk,
                                 min_chunk_size, merge_limit)
             ELSE FirstPass(chunks, i + 1, Append(merged, current), next_chunk,
                            min_chunk_size, merge_limit)

\* TailCleanup without the test of line 229
TailCleanupUnbounded(merged, min_chunk_size, merge_limit) ==
    LET n == Len(merged)
    IN  IF n > 1 /\ Len(merged[n]) < min_chunk_size
        THEN Append(SubSeq(merged, 1, n - 2), JoinSpace(merged[n - 1], merged[n]))
        ELSE merged

\* the second pass, lines 228-231: the last chunk into the one before it
TailCleanup(merged, min_chunk_size, merge_limit) ==
    LET n == Len(merged)
    IN  IF n > 1 /\ Len(merged[n]) < min_chunk_size
           /\ Len(merged[n - 1]) + Len(merged[n]) + 1 <= merge_limit
        THEN Append(SubSeq(merged, 1, n - 2), JoinSpace(merged[n - 1], merged[n]))
        ELSE merged

\* HeadCleanup without the test of line 235
HeadCleanupUnbounded(merged, min_chunk_size, merge_limit) ==
    IF Len(merged) > 1 /\ Len(merged[1]) < min_chunk_size
    THEN << JoinSpace(merged[1], merged[2]) >> \o SubSeq(merged, 3, Len(merged))
    ELSE merged

\* the third pass, lines 234-237: the first chunk into the one after it
HeadCleanup(merged, min_chunk_size, merge_limit) ==
    IF Len(merged) > 1 /\ Len(merged[1]) < min_chunk_size
       /\ Len(merged[1]) + Len(merged[2]) + 1 <= merge_limit
    THEN << JoinSpace(merged[1], merged[2]) >> \o SubSeq(merged, 3, Len(merged))
    ELSE merged

MergeSmallChunks(chunks, min_chunk_size, max_chunk_size) ==
    IF Len(chunks) <= 1 THEN chunks
    ELSE LET merge_limit == MergeLimit(max_chunk_size)
             first == FirstPass(chunks, 2, << >>, chunks[1],
                                min_chunk_size, merge_limit)
         IN  HeadCleanup(TailCleanup(first, min_chunk_size, merge_limit),
                         min_chunk_size, merge_limit)

(***************************************************************************)
(* chunk_text (chunk.py lines 242-354) as a state machine.                 *)
(***************************************************************************)
VARIABLES
    source,            \* the text argument as passed
    text,              \* the local text: the argument, stripped at line 272
    chunk_size,
    overlap,
    use_tokens,
    min_chunk_size,
    pc,                \* "call", "loop", "merge", "done", "raised"; "select", "selected"
    protected_ranges,
    start,             \* the cursor of the main loop
    max_end,           \* max_end and end of the latest iteration
    end,
    chunks,
    ranges,            \* history: the <<start, end>> of every iteration
    raw_chunks,        \* history: chunks as the loop left it, before the merge
    docs,              \* chunk_documents and index_documents: the argument docs
    doc_index,         \* the documents the for loop of line 388 has taken
    chunked_docs,      \* the list chunk_documents builds
    store,             \* the collection of the vector store: its entries
    runs,              \* the store as each call of index_documents left it
    calls,             \* the locals of chunk_text calls that run side by side
    texts,             \* embed_texts: the argument texts
    max_retries,
    retry_delay,
    attempt,           \* the loop variable of embed.py line 41
    requests,          \* history: the outcome of every call of the embeddings API
    sleeps,            \* history: the wait_time of every time.sleep
    outcome,           \* how embed_texts left: None, Some of a return or a raise
    history,           \* the raw messages of the Slack workspace, oldest first
    ops                \* history: the ingestion operations that have run

\* the variables of the embedding client and of the ingestion paths
serviceVars == <<texts, max_retries, retry_delay, attempt, requests, sleeps,
                 outcome, history, ops>>

\* the variables of the callers of chunk_text
wrapperVars == <<docs, doc_index, chunked_docs, store, runs, calls, serviceVars>>

vars == <<source, text, chunk_size, overlap, use_tokens, min_chunk_size, pc,
          protected_ranges, start, max_end, end, chunks, ranges, raw_chunks,
          docs, doc_index, chunked_docs, store, runs, calls,
          texts, max_retries, retry_delay, attempt, requests, sleeps, outcome,
          history, ops>>

\* neither the embedding client nor an ingestion path is at work
ServiceIdle ==
    /\ texts = << >>
    /\ max_retries = 0
    /\ retry_delay = 0
    /\ attempt = 0
    /\ requests = << >>
    /\ sleeps = << >>
    /\ outcome = << >>
    /\ history = << >>
    /\ ops = << >>

\* no caller of chunk_text is at work
WrapperIdle ==
    /\ docs = << >>
    /\ doc_index = 0
    /\ chunked_docs = << >>
    /\ store = { }
    /\ runs = << >>
    /\ calls = << >>
    /\ ServiceIdle

\* the thresholds of the reduction pass, lines 312 and 316
ReduceMinSpan == 200

ReduceMinKeep == 100

\* int(chunk_size * 0.35) and int(chunk_size * 0.7)
MaxTokens(size) == TruncDiv(size * 35, 100)

ReducedSize(size) == TruncDiv(size * 7, 10)

\* len(tokenizer.encode(chunk)): the oracle gives between one token for the
\* whole chunk and one token per character; only the comparison with
\* max_tokens is read, so the two extremes stand for the range
TokenCounts(chunk) == {1, Len(chunk)}

\* next_start one character past end
NextStartSkips(txt, st, e, ov) == e + 1

\* NextStart without the scan of lines 333-336: the cursor goes back to
\* overlap_start itself
NextStartUnaligned(txt, st, e, ov) ==
    IF ov > 0 /\ e < Len(txt)
    THEN IF e - ov <= st THEN e ELSE e - ov
    ELSE e

\* lines 324-340: where the next chunk starts
NextStart(txt, st, e, ov) ==
    IF ov > 0 /\ e < Len(txt)
    THEN LET overlap_start == e - ov
             spaces == {i \in overlap_start..(e - 1) : At(txt, i) = " "}
         IN  IF overlap_start <= st THEN e
             ELSE IF spaces = {} THEN e
             ELSE (CHOOSE i \in spaces : \A j \in spaces : i <= j) + 1
    ELSE e

\* lines 298-303: the selector's break point, forced to max_end when it
\* does not pass start
SelectedEnd(txt, st, mx, pr) ==
    LET e == FindBreakPoint(txt, st, mx, pr)
    IN  IF e <= st THEN mx ELSE e

\* lines 309-318: whether the reduction pass replaces the chunk of [st, e)
\* by the chunk of [st, reduced_end)
Reduces(txt, st, e, size, tokens, token_count, reduced_end) ==
    /\ PyStrip(PySlice(txt, st, e)) # << >>
    /\ tokens
    /\ token_count > MaxTokens(size)
    /\ e - st > ReduceMinSpan
    /\ reduced_end > st + ReduceMinKeep
    /\ PyStrip(PySlice(txt, st, reduced_end)) # << >>

\* the locals at line 322 of an iteration that chose [st, e): max_end,
\* end, chunk (None when it is empty and not appended) and next_start
IterationLocals(txt, st, ov, mx, e, reduce, reduced_end) ==
    [max_end |-> mx,
     end |-> IF reduce THEN reduced_end ELSE e,
     chunk |-> IF PyStrip(PySlice(txt, st, e)) = << >> THEN None
               ELSE IF reduce THEN Some(PyStrip(PySlice(txt, st, reduced_end)))
               ELSE Some(PyStrip(PySlice(txt, st, e))),
     next_start |-> NextStart(txt, st, IF reduce THEN reduced_end ELSE e, ov)]

IterationFrom(txt, st, size, ov, tokens, token_count, mx, e, reduced_end) ==
    IterationLocals(txt, st, ov, mx, e,
                    Reduces(txt, st, e, size, tokens, token_count, reduced_end),
                    reduced_end)

\* lines 289-340 of one iteration that is not the last chunk, for the token
\* count the oracle gives
Iteration(txt, st, size, ov, pr, tokens, token_count) ==
    IterationFrom(txt, st, size, ov, tokens, token_count,
                  Min(st + size, Len(txt)),
                  SelectedEnd(txt, st, Min(st + size, Len(txt)), pr),
                  FindBreakPoint(txt, st, st + ReducedSize(size), pr))

\* the chunk of line 305, which the oracle counts
FirstChunk(txt, st, size, pr) ==
    PyStrip(PySlice(txt, st, SelectedEnd(txt, st, Min(st + size, Len(txt)), pr)))

\* lines 269-270
ReturnEmpty ==
    /\ pc = "call"
    /\ PyStrip(text) = << >>
    /\ chunks' = << >>
    /\ pc' = "done"
    /\ UNCHANGED wrapperVars
    /\ UNCHANGED <<source, text, chunk_size, overlap, use_tokens, min_chunk_size,
                   protected_ranges, start, max_end, end, ranges, raw_chunks>>

\* ReturnShort without the strip of line 272
ReturnShortUntrimmed ==
    /\ pc = "call"
    /\ PyStrip(text) # << >>
    /\ Len(PyStrip(text)) <= chunk_size
    /\ chunks' = << text >>
    /\ pc' = "done"
    /\ UNCHANGED wrapperVars
    /\ UNCHANGED <<source, text, chunk_size, overlap, use_tokens, min_chunk_size,
                   protected_ranges, start, max_end, end, ranges, raw_chunks>>

\* lines 272-276
ReturnShort ==
    /\ pc = "call"
    /\ PyStrip(text) # << >>
    /\ Len(PyStrip(text)) <= chunk_size
    /\ text' = PyStrip(text)
    /\ chunks' = << text' >>
    /\ pc' = "done"
    /\ UNCHANGED wrapperVars
    /\ UNCHANGED <<source, chunk_size, overlap, use_tokens, min_chunk_size,
                   protected_ranges, start, max_end, end, ranges, raw_chunks>>

\* lines 272-285
EnterLoop ==
    /\ pc = "call"
    /\ PyStrip(text) # << >>
    /\ Len(PyStrip(text)) > chunk_size
    /\ text' = PyStrip(text)
    /\ protected_ranges' = FindProtectedRanges(PyStrip(text))
    /\ chunks' = << >>
    /\ start' = 0
    /\ pc' = "loop"
    /\ UNCHANGED wrapperVars
    /\ UNCHANGED <<source, chunk_size, overlap, use_tokens, min_chunk_size,
                   max_end, end, ranges, raw_chunks>>

\* line 287: the loop condition fails
LoopExit ==
    /\ pc = "loop"
    /\ start >= Len(text)
    /\ pc' = "merge"
    /\ UNCHANGED wrapperVars
    /\ UNCHANGED <<source, text, chunk_size, overlap, use_tokens, min_chunk_size,
                   protected_ranges, start, max_end, end, chunks, ranges, raw_chunks>>

\* lines 289-296: the last chunk takes everything remaining
LastChunk ==
    /\ pc = "loop"
    /\ start < Len(text)
    /\ Min(start + chunk_size, Len(text)) >= Len(text)
    /\ max_end' = Min(start + chunk_size, Len(text))
    /\ LET chunk == PyStrip(PySlice(text, start, Len(text)))
       IN  chunks' = IF chunk # << >> THEN Append(chunks, chunk) ELSE chunks
    /\ ranges' = Append(ranges, <<start, Len(text)>>)
    /\ pc' = "merge"
    /\ UNCHANGED wrapperVars
    /\ UNCHANGED <<source, text, chunk_size, overlap, use_tokens, min_chunk_size,
                   protected_ranges, start, end, raw_chunks>>

\* StepWith without lines 343-346: the cursor takes next_start as it is
StepWithNoValve(it) ==
    /\ max_end' = it.max_end
    /\ end' = it.end
    /\ chunks' = IF it.chunk # None THEN Append(chunks, it.chunk[1]) ELSE chunks
    /\ ranges' = Append(ranges, <<start, it.end>>)
    /\ pc' = "loop"
    /\ start' = it.next_start

\* StepWith with a sliding window in place of lines 324-346: the cursor
\* goes back overlap characters from end, with no check that it moved
StepWithSlidingOverlap(it) ==
    /\ max_end' = it.max_end
    /\ end' = it.end
    /\ chunks' = IF it.chunk # None THEN Append(chunks, it.chunk[1]) ELSE chunks
    /\ ranges' = Append(ranges, <<start, it.end>>)
    /\ pc' = "loop"
    /\ start' = IF overlap > 0 /\ it.end < Len(text) THEN Max(it.end - overlap, 0)
                ELSE it.end

\* lines 322-348 with the locals it: the chunk is appended and the cursor
\* moves, or the loop halts
StepWith(it) ==
    /\ max_end' = it.max_end
    /\ end' = it.end
    /\ chunks' = IF it.chunk # None THEN Append(chunks, it.chunk[1]) ELSE chunks
    /\ ranges' = Append(ranges, <<start, it.end>>)
    /\ IF (IF it.next_start <= start THEN it.end ELSE it.next_start) <= start
       THEN pc' = "merge" /\ start' = start
       ELSE /\ pc' = "loop"
            /\ start' = IF it.next_start <= start THEN it.end ELSE it.next_start

\* lines 289-348: one iteration that is not the last chunk
LoopStep ==
    /\ pc = "loop"
    /\ start < Len(text)
    /\ Min(start + chunk_size, Len(text)) < Len(text)
    /\ \E token_count \in TokenCounts(FirstChunk(text, start, chunk_size,
                                                 protected_ranges)) :
         \E it \in {Iteration(text, start, chunk_size, overlap, protected_ranges,
                              use_tokens, token_count)} :
             StepWith(it)
    /\ UNCHANGED wrapperVars
    /\ UNCHANGED <<source, text, chunk_size, overlap, use_tokens, min_chunk_size,
                   protected_ranges, raw_chunks>>

\* line 310: the token oracle raises; chunk_text has no handler, so the
\* exception leaves the call
OracleRaises ==
    /\ pc = "loop"
    /\ start < Len(text)
    /\ Min(start + chunk_size, Len(text)) < Len(text)
    /\ use_tokens
    /\ FirstChunk(text, start, chunk_size, protected_ranges) # << >>
    /\ pc' = "raised"
    /\ UNCHANGED wrapperVars
    /\ UNCHANGED <<source, text, chunk_size, overlap, use_tokens, min_chunk_size,
                   protected_ranges, start, max_end, end, chunks, ranges, raw_chunks>>

\* lines 350-354
MergeAndReturn ==
    /\ pc = "merge"
    /\ raw_chunks' = chunks
    /\ chunks' = IF min_chunk_size > 0 /\ Len(chunks) > 1
                 THEN MergeSmallChunks(chunks, min_chunk_size, chunk_size)
                 ELSE chunks
    /\ pc' = "done"
    /\ UNCHANGED wrapperVars
    /\ UNCHANGED <<source, text, chunk_size, overlap, use_tokens, min_chunk_size,
                   protected_ranges, start, max_end, end, ranges>>

(***************************************************************************)
(* chunk_text as a function of its arguments, for its callers: the locals  *)
(* of one call as a record, and the steps above as a function on it.       *)
(***************************************************************************)
\* len(tokenizer.encode(chunk)) for the callers: the encoder is a pure
\* function of the chunk; here it gives one token per character
CountTokens(chunk) == Len(chunk)

\* the locals at the entry of chunk_text(txt, size, ov, tokens, min_size)
CallInit(txt, size, ov, tokens, min_size) ==
    [source |-> txt, text |-> txt, chunk_size |-> size, overlap |-> ov,
     use_tokens |-> tokens, min_chunk_size |-> min_size, pc |-> "call",
     protected_ranges |-> << >>, start |-> 0, chunks |-> << >>]

\* lines 269-285
CallEnter(c) ==
    IF PyStrip(c.text) = << >> THEN [c EXCEPT !.pc = "done"]
    ELSE IF Len(PyStrip(c.text)) <= c.chunk_size
    THEN [c EXCEPT !.text = PyStrip(c.text), !.chunks = << PyStrip(c.text) >>,
                   !.pc = "done"]
    ELSE [c EXCEPT !.text = PyStrip(c.text),
                   !.protected_ranges = FindProtectedRanges(PyStrip(c.text)),
                   !.pc = "loop"]

\* lines 322-348 with the locals it of the iteration
CallAdvance(c, it) ==
    LET next_start == IF it.next_start <= c.start THEN it.end ELSE it.next_start
    IN  [c EXCEPT !.chunks = IF it.chunk # None THEN Append(c.chunks, it.chunk[1])
                             ELSE c.chunks,
                  !.pc = IF next_start <= c.start THEN "merge" ELSE "loop",
                  !.start = IF next_start <= c.start THEN c.start ELSE next_start]

\* lines 287-348: one pass of the while loop
CallIterate(c) ==
    IF c.start >= Len(c.text) THEN [c EXCEPT !.pc = "merge"]
    ELSE IF Min(c.start + c.chunk_size, Len(c.text)) >= Len(c.text)
    THEN LET chunk == PyStrip(PySlice(c.text, c.start, Len(c.text)))
         IN  [c EXCEPT !.chunks = IF chunk # << >> THEN Append(c.chunks, chunk)
                                  ELSE c.chunks,
                       !.pc = "merge"]
    ELSE CHOOSE next \in
             {CallAdvance(c, it) :
                 it \in {Iteration(c.text, c.start, c.chunk_size, c.overlap,
                                   c.protected_ranges, c.use_tokens, token_count) :
                            token_count \in {CountTokens(FirstChunk(
                                c.text, c.start, c.chunk_size, c.protected_ranges))}}} :
             TRUE

\* lines 350-354
CallMerge(c) ==
    [c EXCEPT !.chunks = IF c.min_chunk_size > 0 /\ Len(c.chunks) > 1
                         THEN MergeSmallChunks(c.chunks, c.min_chunk_size, c.chunk_size)
                         ELSE c.chunks,
              !.pc = "done"]

\* one step of a call of chunk_text
CallStep(c) ==
    IF c.pc = "call" THEN CallEnter(c)
    ELSE IF c.pc = "loop" THEN CallIterate(c)
    ELSE IF c.pc = "merge" THEN CallMerge(c)
    ELSE c

\* the call run to its return; each step is taken once and its result bound
RECURSIVE CallRun(_)
CallRun(c) ==
    IF c.pc = "done" THEN c
    ELSE CHOOSE last \in {CallRun(next) : next \in {CallStep(c)}} : TRUE

\* the list chunk_text(txt, size, ov, tokens, min_size) returns
ChunkText(txt, size, ov, tokens, min_size) ==
    CallRun(CallInit(txt, size, ov, tokens, min_size)).chunks

(***************************************************************************)
(* The inputs of the model.                                                *)
(***************************************************************************)
Alphabet == {"a", " ", "\n", ".", Backtick, "-"}

RECURSIVE TextsOfLen(_, _)
TextsOfLen(alphabet, n) ==
    IF n = 0 THEN { << >> }
    ELSE {Append(t, c) : t \in TextsOfLen(alphabet, n - 1), c \in alphabet}

ShortTexts == UNION {TextsOfLen(Alphabet, n) : n \in 0..MaxLen}

ShortInputs ==
    [text : ShortTexts, chunk_size : (0 - 1)..MaxSize,
     overlap : (0 - 1)..(MaxSize - 1),
     use_tokens : BOOLEAN, min_chunk_size : {0, 2}]

\* Texts made of whole words, separators and protected spans: a word, a
\* space, a sentence end before a paragraph break, an inline code span
\* holding a space, a plain URL, a list item on its own line, a fenced code
\* block holding a newline, a Slack URL with a label
Segments ==
    { <<"a", "a">>,
      <<" ">>,
      <<".", "\n", "\n">>,
      <<Backtick, "a", " ", "a", Backtick>>,
      <<"h", "t", "t", "p", ":", "/", "/", "a">>,
      <<"\n", "-", " ", "a", " ", "a">>,
      <<Backtick, Backtick, Backtick, "a", "\n", "a", Backtick, Backtick, Backtick>>,
      <<"<", "h", "t", "t", "p", "s", ":", "/", "/", "a", "|", "a", " ", "a", ">">> }

RECURSIVE SegmentTexts(_)
SegmentTexts(n) ==
    IF n = 0 THEN { << >> }
    ELSE {t \o g : t \in SegmentTexts(n - 1), g \in Segments}

SegmentInputs ==
    [text : UNION {SegmentTexts(n) : n \in 1..MaxSegs},
     chunk_size : {MaxSize, 2 * MaxSize}, overlap : {0, MaxSize - 1},
     use_tokens : {TRUE}, min_chunk_size : {2}]

\* unit repeated n times
RECURSIVE Rep(_, _)
Rep(unit, n) == IF n = 0 THEN << >> ELSE unit \o Rep(unit, n - 1)

\* a word of n letters
Word(n) == [i \in 1..n |-> "a"]

\* Short units repeated: a letter before an inline code span, a short
\* sentence, a word and a space
SmallUnits ==
    { <<"a", Backtick, "a", Backtick>>,
      <<"a", "a", ".", " ">>,
      <<"a", "a", "a", " ">> }

SmallRepInputs ==
    [text : {Rep(u, n) : u \in SmallUnits, n \in 2..MaxReps},
     chunk_size : {MaxSize, MaxSize + 2}, overlap : {0, 1},
     use_tokens : {TRUE}, min_chunk_size : {0, 2}]

\* a sentence of n letters: the letters, a full stop, a space
Sentence(n) == Word(n) \o <<".", " ">>

\* Long units repeated, for chunks of more than 200 characters: five
\* sentences of 18 letters, and three times an inline code span of 22
\* characters, a space and a sentence of 5 letters
LongUnits ==
    { Rep(Sentence(18), 5),
      Rep(<<Backtick>> \o Word(20) \o <<Backtick, " ">> \o Sentence(5), 3) }

LongInputs ==
    [text : {Rep(u, MaxReps) : u \in LongUnits},
     chunk_size : {100, 250}, overlap : {0, 60},
     use_tokens : BOOLEAN, min_chunk_size : {50}]

\* the state at the call chunk_text(inp.text, inp.chunk_size, ...)
Called(inp) ==
    /\ source = inp.text
    /\ text = inp.text
    /\ chunk_size = inp.chunk_size
    /\ overlap = inp.overlap
    /\ use_tokens = inp.use_tokens
    /\ min_chunk_size = inp.min_chunk_size
    /\ pc = "call"
    /\ protected_ranges = << >>
    /\ start = 0
    /\ max_end = 0
    /\ end = 0
    /\ chunks = << >>
    /\ ranges = << >>
    /\ raw_chunks = << >>
    /\ WrapperIdle

\* Wide texts, for a first range of more than 200 characters below a long
\* unbroken word: a word of 200 letters, a space, a short word, a newline
\* or a space, and a word of 215 letters that fills the back half of the
\* window of 420
WideTexts ==
    {Word(ReduceMinSpan) \o <<" ">> \o Word(g) \o <<sep>> \o Word(215) :
        g \in 1..(MaxLen + 1), sep \in {"\n", " "}}

WideInputs ==
    [text : WideTexts, chunk_size : {420}, overlap : {0, 60},
     use_tokens : BOOLEAN, min_chunk_size : {0, 50}]

Init ==
    \/ \E inp \in ShortInputs : Called(inp)
    \/ \E inp \in SegmentInputs : Called(inp)
    \/ \E inp \in SmallRepInputs : Called(inp)
    \/ \E inp \in LongInputs : Called(inp)
    \/ \E inp \in WideInputs : Called(inp)

Next ==
    \/ ReturnEmpty
    \/ ReturnShort
    \/ EnterLoop
    \/ LoopExit
    \/ LastChunk
    \/ LoopStep
    \/ OracleRaises
    \/ MergeAndReturn

Spec == Init /\ [][Next]_vars

(***************************************************************************)
(* _find_break_point called on its own, for any sorted sequence of         *)
(* disjoint spans, not only the spans the detector finds in the text.      *)
(***************************************************************************)
\* longest text of the selector's calls
SelLen == 4
\* most spans of a call
MaxSpans == 2

SelAlphabet == {"a", " ", "\n", "."}

\* the sorted sequences of at most k disjoint spans within lo..n
RECURSIVE SpanSeqs(_, _, _)
SpanSeqs(lo, n, k) ==
    IF k = 0 THEN { << >> }
    ELSE { << >> } \cup
         UNION { { << sp >> \o rest : rest \in SpanSeqs(sp[2], n, k - 1) } :
                 sp \in {q \in (lo..n) \X (lo..n) : q[1] < q[2]} }

\* the state at the call _find_break_point(text, start, max_end, spans)
SelectCalled(txt, spans, st, mx) ==
    /\ source = txt
    /\ text = txt
    /\ chunk_size = 0
    /\ overlap = 0
    /\ use_tokens = FALSE
    /\ min_chunk_size = 0
    /\ pc = "select"
    /\ protected_ranges = spans
    /\ start = st
    /\ max_end = mx
    /\ end = 0
    /\ chunks = << >>
    /\ ranges = << >>
    /\ raw_chunks = << >>
    /\ WrapperIdle

InitSel ==
    \E n \in 1..SelLen :
        \E txt \in TextsOfLen(SelAlphabet, n), spans \in SpanSeqs(0, n, MaxSpans) :
            \E mx \in 0..(n + 1), st \in 0..n :
                st <= mx /\ SelectCalled(txt, spans, st, mx)

\* lines 87-178: the call returns its break point
SelectBreak ==
    /\ pc = "select"
    /\ end' = FindBreakPoint(text, start, max_end, protected_ranges)
    /\ pc' = "selected"
    /\ UNCHANGED wrapperVars
    /\ UNCHANGED <<source, text, chunk_size, overlap, use_tokens, min_chunk_size,
                   protected_ranges, start, max_end, chunks, ranges, raw_chunks>>

NextSel == SelectBreak

SpecSel == InitSel /\ [][NextSel]_vars

(***************************************************************************)
(* _merge_small_chunks called on its own, for any list of chunks and any   *)
(* integer min_chunk_size and max_chunk_size.  The function reads only the *)
(* lengths of the chunks and whether a chunk is empty, so the chunks are   *)
(* words of letters.                                                       *)
(***************************************************************************)
\* most chunks of a call
MaxChunks == 4
\* longest chunk of a call
MaxChunkLen == 3

RECURSIVE ChunkLists(_)
ChunkLists(n) ==
    IF n = 0 THEN { << >> }
    ELSE {Append(cs, Word(m)) : cs \in ChunkLists(n - 1), m \in 0..MaxChunkLen}

\* the state at the call _merge_small_chunks(chunks, min_size, max_size)
MergeCalled(cs, min_size, max_size) ==
    /\ source = << >>
    /\ text = << >>
    /\ chunk_size = max_size
    /\ overlap = 0
    /\ use_tokens = FALSE
    /\ min_chunk_size = min_size
    /\ pc = "merge_call"
    /\ protected_ranges = << >>
    /\ start = 0
    /\ max_end = 0
    /\ end = 0
    /\ chunks = cs
    /\ ranges = << >>
    /\ raw_chunks = cs
    /\ WrapperIdle

InitMerge ==
    \E n \in 0..MaxChunks :
        \E cs \in ChunkLists(n) :
            \E min_size \in 0..(MaxChunkLen + 1),
               max_size \in (0 - 1)..(2 * MaxChunkLen) :
                MergeCalled(cs, min_size, max_size)

\* lines 181-239: the call returns its list
MergeCall ==
    /\ pc = "merge_call"
    /\ chunks' = MergeSmallChunks(chunks, min_chunk_size, chunk_size)
    /\ pc' = "merge_returned"
    /\ UNCHANGED wrapperVars
    /\ UNCHANGED <<source, text, chunk_size, overlap, use_tokens, min_chunk_size,
                   protected_ranges, start, max_end, end, ranges, raw_chunks>>

NextMerge == MergeCall

SpecMerge == InitMerge /\ [][NextMerge]_vars

(***************************************************************************)
(* The merge of _find_protected_ranges (lines 59-74) on its own, for any   *)
(* list of raw matches in any order of appending.                          *)
(***************************************************************************)
\* most raw matches of a call
MaxRaw == 3
\* greatest offset of a raw match
MaxOffset == 4

\* a raw match is never empty: each pattern consumes a character or more
RawMatches == {q \in (0..MaxOffset) \X (0..MaxOffset) : q[1] < q[2]}

RECURSIVE RawLists(_)
RawLists(n) ==
    IF n = 0 THEN { << >> }
    ELSE {Append(rs, q) : rs \in RawLists(n - 1), q \in RawMatches}

\* the state at line 59, the list protected filled with the raw matches
DetectCalled(raw) ==
    /\ source = << >>
    /\ text = << >>
    /\ chunk_size = 0
    /\ overlap = 0
    /\ use_tokens = FALSE
    /\ min_chunk_size = 0
    /\ pc = "detect_merge"
    /\ protected_ranges = << >>
    /\ start = 0
    /\ max_end = 0
    /\ end = 0
    /\ chunks = << >>
    /\ ranges = raw
    /\ raw_chunks = << >>
    /\ WrapperIdle

InitDetect == \E n \in 0..MaxRaw : \E raw \in RawLists(n) : DetectCalled(raw)

\* lines 59-74: the raw matches, held in ranges, are sorted and coalesced
DetectMerge ==
    /\ pc = "detect_merge"
    /\ protected_ranges' = MergeRanges(ranges)
    /\ pc' = "detect_merged"
    /\ UNCHANGED wrapperVars
    /\ UNCHANGED <<source, text, chunk_size, overlap, use_tokens, min_chunk_size,
                   start, max_end, end, chunks, ranges, raw_chunks>>

NextDetect == DetectMerge

SpecDetect == InitDetect /\ [][NextDetect]_vars

(***************************************************************************)
(* chunk_documents (chunk.py lines 357-411).  A document is a record; an   *)
(* id and a text are sequences of characters, the other fields strings.    *)
(***************************************************************************)
\* the default min_chunk_size of chunk_text, which chunk_documents leaves
\* in place
DefaultMinChunkSize == 50

\* doc.get(key, default)
Get(doc, key, default) == IF key \in DOMAIN doc THEN doc[key] ELSE default

ChunkMark == <<"-", "c", "h", "u", "n", "k", "-">>

DigitChars == <<"0", "1", "2", "3", "4", "5", "6", "7", "8", "9">>

\* str(n) of the f-string, n >= 0
RECURSIVE Decimal(_)
Decimal(n) ==
    IF n < 10 THEN << DigitChars[n + 1] >>
    ELSE Decimal(n \div 10) \o << DigitChars[(n % 10) + 1] >>

\* ChunkId numbering the chunks from 1
ChunkIdOneBased(id, i) == id \o ChunkMark \o Decimal(i + 1)

\* line 397: f"{doc['id']}-chunk-{i}"
ChunkId(id, i) == id \o ChunkMark \o Decimal(i)

\* lines 396-407: the entry of chunk i (from 0) of doc
ChunkedDoc(doc, i, chunk) ==
    [id |-> ChunkId(doc.id, i),
     text |-> chunk,
     metadata |-> [channel |-> Get(doc, "channel", ""),
                   channel_name |-> Get(doc, "channel_name", ""),
                   user |-> Get(doc, "user", ""),
                   ts |-> Get(doc, "ts", ""),
                   permalink |-> Get(doc, "permalink", ""),
                   chunk_index |-> i]]

\* lines 389-408 for one document: nothing when its text is empty or
\* missing, else one entry for each chunk of chunk_text
EntriesOf(doc, size, ov, tokens) ==
    LET txt == Get(doc, "text", << >>)
    IN  IF txt = << >> THEN << >>
        ELSE CHOOSE entries \in
                 {[k \in 1..Len(cs) |-> ChunkedDoc(doc, k - 1, cs[k])] :
                     cs \in {ChunkText(txt, size, ov, tokens, DefaultMinChunkSize)}} :
                 TRUE

\* the list chunk_documents(ds, size, ov, tokens) returns
RECURSIVE ChunkDocuments(_, _, _, _)
ChunkDocuments(ds, size, ov, tokens) ==
    IF ds = << >> THEN << >>
    ELSE ChunkDocuments(SubSeq(ds, 1, Len(ds) - 1), size, ov, tokens)
             \o EntriesOf(ds[Len(ds)], size, ov, tokens)

\* most documents of a call
MaxDocs == 2

\* ids of which one is another followed by the mark and an index
DocIds == { <<"x">>, <<"x">> \o ChunkMark \o <<"0">>, <<"y">> }

\* a text cut into eleven chunks when chunk_size = 1
ManyWords == Rep(<<"a", " ">>, 10) \o <<"a">>

FullDoc(id, txt) ==
    [id |-> id, text |-> txt, channel |-> "C1", channel_name |-> "general",
     user |-> "U1", ts |-> "1.5", permalink |-> "https://p", thread_ts |-> "1.0"]

\* documents with every field, with a blank or an empty text, with no
\* field but id and text, and with no text at all
DocPool ==
    UNION { { FullDoc(id, ManyWords), FullDoc(id, <<" ">>), FullDoc(id, << >>),
              [id |-> id, text |-> <<"a", " ", "a">>], [id |-> id, user |-> "U2"] } :
            id \in DocIds }

RECURSIVE DocLists(_)
DocLists(n) ==
    IF n = 0 THEN { << >> }
    ELSE {Append(ds, d) : ds \in DocLists(n - 1), d \in DocPool}

\* the state at the call chunk_documents(ds, size, ov, tokens)
DocsCalled(ds, size, ov, tokens) ==
    /\ source = << >>
    /\ text = << >>
    /\ chunk_size = size
    /\ overlap = ov
    /\ use_tokens = tokens
    /\ min_chunk_size = DefaultMinChunkSize
    /\ pc = "docs_loop"
    /\ protected_ranges = << >>
    /\ start = 0
    /\ max_end = 0
    /\ end = 0
    /\ chunks = << >>
    /\ ranges = << >>
    /\ raw_chunks = << >>
    /\ docs = ds
    /\ doc_index = 0
    /\ chunked_docs = << >>
    /\ store = { }
    /\ runs = << >>
    /\ calls = << >>
    /\ ServiceIdle

InitDocs ==
    \E n \in 0..MaxDocs :
        \E ds \in DocLists(n), size \in {1, 3}, ov \in {0, 1}, tokens \in BOOLEAN :
            DocsCalled(ds, size, ov, tokens)

\* lines 389-391: a document with no text is passed over
SkipDoc ==
    /\ pc = "docs_loop"
    /\ doc_index < Len(docs)
    /\ Get(docs[doc_index + 1], "text", << >>) = << >>
    /\ doc_index' = doc_index + 1
    /\ UNCHANGED <<docs, chunked_docs, store, runs, calls>>
    /\ UNCHANGED serviceVars
    /\ UNCHANGED <<source, text, chunk_size, overlap, use_tokens, min_chunk_size, pc,
                   protected_ranges, start, max_end, end, chunks, ranges, raw_chunks>>

\* lines 393-408: the chunks of the document are appended
ChunkDoc ==
    /\ pc = "docs_loop"
    /\ doc_index < Len(docs)
    /\ Get(docs[doc_index + 1], "text", << >>) # << >>
    /\ chunked_docs' = chunked_docs \o EntriesOf(docs[doc_index + 1], chunk_size,
                                                 overlap, use_tokens)
    /\ doc_index' = doc_index + 1
    /\ UNCHANGED <<docs, store, runs, calls>>
    /\ UNCHANGED serviceVars
    /\ UNCHANGED <<source, text, chunk_size, overlap, use_tokens, min_chunk_size, pc,
                   protected_ranges, start, max_end, end, chunks, ranges, raw_chunks>>

\* lines 410-411
DocsReturn ==
    /\ pc = "docs_loop"
    /\ doc_index = Len(docs)
    /\ pc' = "docs_done"
    /\ UNCHANGED wrapperVars
    /\ UNCHANGED <<source, text, chunk_size, overlap, use_tokens, min_chunk_size,
                   protected_ranges, start, max_end, end, chunks, ranges, raw_chunks>>

NextDocs ==
    \/ SkipDoc
    \/ ChunkDoc
    \/ DocsReturn

SpecDocs == InitDocs /\ [][NextDocs]_vars

(***************************************************************************)
(* index_documents (realtime.py lines 161-205) and VectorStore.upsert      *)
(* (store.py lines 41-72), called again and again on the same documents.   *)
(* The collection is the set of its entries; collection.upsert of the      *)
(* vector database writes each entry of the batch under its id, replacing  *)
(* an entry already there, and rejects a batch that holds an id twice.     *)
(***************************************************************************)
\* most calls of index_documents on the same documents
MaxRuns == 2

\* Upsert as an insert under ids of the store's own making, one past the
\* count of the collection
UpsertFreshIds(st, batch) ==
    st \cup {[batch[k] EXCEPT !.id = Decimal(Cardinality(st) + k)] :
                k \in 1..Len(batch)}

\* store.py lines 58-70: every entry of the batch is written under its id
Upsert(st, batch) ==
    {e \in st : \A k \in 1..Len(batch) : batch[k].id # e.id}
        \cup {batch[k] : k \in 1..Len(batch)}

\* an id is in the batch twice
HasDuplicateIds(batch) ==
    \E i, j \in 1..Len(batch) : i # j /\ batch[i].id = batch[j].id

\* an entry of an earlier indexing of another text of document x, and an
\* entry of a document that is not indexed again
StaleEntries ==
    { [id |-> ChunkId(<<"x">>, 0), text |-> <<"o", "l", "d">>,
       metadata |-> [channel |-> "C1", channel_name |-> "general", user |-> "U1",
                     ts |-> "1.5", permalink |-> "https://p", chunk_index |-> 0]],
      [id |-> ChunkId(<<"z">>, 0), text |-> <<"z">>,
       metadata |-> [channel |-> "C2", channel_name |-> "random", user |-> "U3",
                     ts |-> "0.5", permalink |-> "", chunk_index |-> 0]] }

\* the state before the first call index_documents(ds, size, ov)
IndexCalled(ds, size, ov, st) ==
    /\ source = << >>
    /\ text = << >>
    /\ chunk_size = size
    /\ overlap = ov
    /\ use_tokens = TRUE
    /\ min_chunk_size = DefaultMinChunkSize
    /\ pc = "index"
    /\ protected_ranges = << >>
    /\ start = 0
    /\ max_end = 0
    /\ end = 0
    /\ chunks = << >>
    /\ ranges = << >>
    /\ raw_chunks = << >>
    /\ docs = ds
    /\ doc_index = 0
    /\ chunked_docs = << >>
    /\ store = st
    /\ runs = << >>
    /\ calls = << >>
    /\ ServiceIdle

InitIndex ==
    \E n \in 0..MaxDocs :
        \E ds \in DocLists(n), size \in {1, 3}, ov \in {0, 1},
           st \in { { }, StaleEntries } :
            IndexCalled(ds, size, ov, st)

\* realtime.py lines 190-193: the documents are chunked
IndexChunk ==
    /\ pc = "index"
    /\ Len(runs) < MaxRuns
    /\ chunked_docs' = ChunkDocuments(docs, chunk_size, overlap, TRUE)
    /\ pc' = "index_store"
    /\ UNCHANGED <<docs, doc_index, store, runs, calls>>
    /\ UNCHANGED serviceVars
    /\ UNCHANGED <<source, text, chunk_size, overlap, use_tokens, min_chunk_size,
                   protected_ranges, start, max_end, end, chunks, ranges, raw_chunks>>

\* realtime.py lines 190-197: no documents, or no chunks, nothing is stored
IndexNothing ==
    /\ pc = "index_store"
    /\ chunked_docs = << >>
    /\ runs' = Append(runs, store)
    /\ pc' = "index"
    /\ UNCHANGED <<docs, doc_index, chunked_docs, store, calls>>
    /\ UNCHANGED serviceVars
    /\ UNCHANGED <<source, text, chunk_size, overlap, use_tokens, min_chunk_size,
                   protected_ranges, start, max_end, end, chunks, ranges, raw_chunks>>

\* realtime.py lines 201-202 and store.py lines 67-70 when the batch holds
\* an id twice: the upsert raises and the collection is as it was
IndexRejected ==
    /\ pc = "index_store"
    /\ HasDuplicateIds(chunked_docs)
    /\ runs' = Append(runs, store)
    /\ pc' = "index"
    /\ UNCHANGED <<docs, doc_index, chunked_docs, store, calls>>
    /\ UNCHANGED serviceVars
    /\ UNCHANGED <<source, text, chunk_size, overlap, use_tokens, min_chunk_size,
                   protected_ranges, start, max_end, end, chunks, ranges, raw_chunks>>

\* realtime.py lines 201-205 and store.py lines 41-72: the chunks are
\* written to the collection
IndexUpsert ==
    /\ pc = "index_store"
    /\ chunked_docs # << >>
    /\ ~HasDuplicateIds(chunked_docs)
    /\ store' = Upsert(store, chunked_docs)
    /\ runs' = Append(runs, store')
    /\ pc' = "index"
    /\ UNCHANGED <<docs, doc_index, chunked_docs, calls>>
    /\ UNCHANGED serviceVars
    /\ UNCHANGED <<source, text, chunk_size, overlap, use_tokens, min_chunk_size,
                   protected_ranges, start, max_end, end, chunks, ranges, raw_chunks>>

NextIndex ==
    \/ IndexChunk
    \/ IndexNothing
    \/ IndexRejected
    \/ IndexUpsert

SpecIndex == InitIndex /\ [][NextIndex]_vars

(***************************************************************************)
(* Two calls of chunk_text running side by side on their own inputs, as    *)
(* the background threads of slack_app.py lines 250-256 run them.  Each    *)
(* call has its locals; the patterns of chunk.py lines 10-16 are the only  *)
(* module-level objects the calls share, and they are only read.           *)
(***************************************************************************)
\* most repetitions of a unit in a text of a concurrent call
MaxParReps == 2

ParUnits ==
    { <<"a", " ">>,
      <<"a", Backtick, "a", " ", "a", Backtick, " ">>,
      <<"a", ".", "\n", "\n">> }

ParInputs ==
    [text : {Rep(u, n) : u \in ParUnits, n \in 1..MaxParReps},
     chunk_size : {2, 3}, overlap : {0, 2}, use_tokens : {TRUE},
     min_chunk_size : {0, 2}]

\* the state when both calls have been made and neither has run
ParCalled(first, second) ==
    /\ source = << >>
    /\ text = << >>
    /\ chunk_size = 0
    /\ overlap = 0
    /\ use_tokens = FALSE
    /\ min_chunk_size = 0
    /\ pc = "par"
    /\ protected_ranges = << >>
    /\ start = 0
    /\ max_end = 0
    /\ end = 0
    /\ chunks = << >>
    /\ ranges = << >>
    /\ raw_chunks = << >>
    /\ docs = << >>
    /\ doc_index = 0
    /\ chunked_docs = << >>
    /\ store = { }
    /\ runs = << >>
    /\ calls = << CallInit(first.text, first.chunk_size, first.overlap,
                           first.use_tokens, first.min_chunk_size),
                  CallInit(second.text, second.chunk_size, second.overlap,
                           second.use_tokens, second.min_chunk_size) >>
    /\ ServiceIdle

InitPar == \E first \in ParInputs, second \in ParInputs : ParCalled(first, second)

\* ParStep with chunks a list of the module, which both calls append to
ParStepSharedChunks(p) ==
    /\ pc = "par"
    /\ calls[p].pc # "done"
    /\ \E next \in {CallStep(calls[p])} :
          calls' = [q \in 1..2 |-> IF q = p THEN next
                                   ELSE [calls[q] EXCEPT !.chunks = next.chunks]]
    /\ UNCHANGED <<docs, doc_index, chunked_docs, store, runs>>
    /\ UNCHANGED serviceVars
    /\ UNCHANGED <<source, text, chunk_size, overlap, use_tokens, min_chunk_size, pc,
                   protected_ranges, start, max_end, end, chunks, ranges, raw_chunks>>

\* call p takes its next step: it reads and writes its own locals only
ParStep(p) ==
    /\ pc = "par"
    /\ calls[p].pc # "done"
    /\ calls' = [calls EXCEPT ![p] = CallStep(calls[p])]
    /\ UNCHANGED <<docs, doc_index, chunked_docs, store, runs>>
    /\ UNCHANGED serviceVars
    /\ UNCHANGED <<source, text, chunk_size, overlap, use_tokens, min_chunk_size, pc,
                   protected_ranges, start, max_end, end, chunks, ranges, raw_chunks>>

NextPar == \E p \in 1..2 : ParStep(p)

SpecPar == InitPar /\ [][NextPar]_vars

(***************************************************************************)
(* _find_break_point called on texts long enough for its back-half window *)
(* to hold several break types at once: words, spaces, newlines, paragraph *)
(* breaks and sentence ends in any order, with no span or one short span.  *)
(***************************************************************************)
\* most segments of a text of these calls
MaxLadderSegs == 4

LadderSegs ==
    { <<"a">>, <<"a", "a", "a", "a">>, <<" ">>, <<"\n">>, <<"\n", "\n">>, <<".", " ">> }

RECURSIVE LadderTexts(_)
LadderTexts(n) ==
    IF n = 0 THEN { << >> }
    ELSE LadderTexts(n - 1)
             \cup {t \o seg : t \in LadderTexts(n - 1), seg \in LadderSegs}

InitLadder ==
    \E txt \in LadderTexts(MaxLadderSegs) :
        \E st \in 0..1, mx \in 1..(Len(txt) - 1) :
            \E spans \in { << >> } \cup {<< <<s, s + 2>> >> : s \in 0..(Len(txt) - 2)} :
                st < mx /\ SelectCalled(txt, spans, st, mx)

SpecLadder == InitLadder /\ [][NextSel]_vars

(***************************************************************************)
(* Properties.                                                             *)
(***************************************************************************)
\* a valid configuration: target_size > 0 and 0 <= overlap < target_size
ValidConfig == chunk_size > 0 /\ 0 <= overlap /\ overlap < chunk_size

\* offset lies strictly inside span: s < offset < e
StrictlyInside(offset, span) == span[1] < offset /\ offset < span[2]

\* the range r holds the whole of span
Contains(r, span) == r[1] <= span[1] /\ span[2] <= r[2]

\* C1: no-split invariant.  When chunk_text returns under a valid
\* configuration, overlap > 0 included, no range [start, end) of the loop
\* starts or ends strictly inside a detected protected span, and every
\* span lies wholly inside the range of some chunk.
C1_NoSplit ==
    (pc = "done" /\ ValidConfig) =>
        /\ \A k \in 1..Len(ranges) : \A j \in 1..Len(protected_ranges) :
              /\ ~StrictlyInside(ranges[k][1], protected_ranges[j])
              /\ ~StrictlyInside(ranges[k][2], protected_ranges[j])
        /\ \A j \in 1..Len(protected_ranges) : \E k \in 1..Len(ranges) :
              Contains(ranges[k], protected_ranges[j])

\* C2: the offset _find_break_point returns is never strictly inside a
\* protected span, for every text, every sorted sequence of disjoint spans
\* and every start < max_end.
C2_BreakOutsideSpans ==
    pc = "selected" =>
        \A j \in 1..Len(protected_ranges) : ~StrictlyInside(end, protected_ranges[j])

\* C2 witness: max_end fell inside a span that starts after start, and the
\* selector went back to an offset at or before the start of that span
C2_Witness ==
    /\ pc = "selected"
    /\ \E j \in 1..Len(protected_ranges) :
          /\ protected_ranges[j][1] <= max_end
          /\ max_end < protected_ranges[j][2]
          /\ start < protected_ranges[j][1]
          /\ end <= protected_ranges[j][1]
    /\ \E j \in 1..Len(protected_ranges) : end = protected_ranges[j][2]

\* the chunks of the ranges rs, in order: each range's text stripped, the
\* empty ones left out
RECURSIVE ChunksOfRanges(_, _)
ChunksOfRanges(txt, rs) ==
    IF rs = << >> THEN << >>
    ELSE LET c == PyStrip(PySlice(txt, Head(rs)[1], Head(rs)[2]))
         IN  (IF c = << >> THEN << >> ELSE << c >>) \o ChunksOfRanges(txt, Tail(rs))

\* C3: coverage.  When chunk_text returns from its loop under a valid
\* configuration, the first range starts at 0, each next range starts at
\* or before the end of the range before it, the last range ends at
\* len(text), and the chunks before the merge are the stripped texts of
\* these ranges; so every character of the trimmed text that is not
\* whitespace is in a chunk.
C3_Coverage ==
    (pc = "done" /\ ValidConfig /\ ranges # << >>) =>
        /\ ranges[1][1] = 0
        /\ \A k \in 1..(Len(ranges) - 1) : ranges[k + 1][1] <= ranges[k][2]
        /\ ranges[Len(ranges)][2] = Len(text)
        /\ raw_chunks = ChunksOfRanges(text, ranges)

\* C3 witness: a run of three or more ranges, with overlap, in which a
\* range starts before the end of the range before it
C3_Witness ==
    /\ pc = "done"
    /\ ValidConfig
    /\ Len(ranges) >= 3
    /\ \E k \in 1..(Len(ranges) - 1) : ranges[k + 1][1] < ranges[k][2]

\* the steps chunk_text has left at most: the offsets the cursor has yet
\* to pass, then the merge and the return
Rank ==
    CASE pc = "call" -> Len(text) + 3
      [] pc = "loop" -> Max(Len(text) - start, 0) + 2
      [] pc = "merge" -> 1
      [] OTHER -> 0

\* C4: termination.  For every text and every integer configuration, the
\* degenerate ones included, every step of chunk_text lowers Rank, a
\* natural number, so chunk_text returns or raises after at most Rank
\* steps; and every iteration after which the loop goes on leaves the
\* cursor start strictly greater than it was.
C4_Terminates ==
    [][/\ Rank' < Rank
       /\ Rank' >= 0
       /\ (pc = "loop" /\ pc' = "loop") => start' > start]_vars

\* C4 witness: a call with target_size <= 0, on a text that is one single
\* protected span, went through the loop and returned
C4_Witness ==
    /\ pc = "done"
    /\ chunk_size <= 0
    /\ protected_ranges = << <<0, Len(text)>> >>
    /\ ranges # << >>

\* C5 as stated, with 3 for the small constant: under a valid
\* configuration the loop makes at most
\* len(text) / max(1, target_size - overlap) + 3 iterations.
C5_IterationBound ==
    (pc = "done" /\ ValidConfig) =>
        Len(ranges) * Max(1, chunk_size - overlap)
            <= Len(text) + 3 * Max(1, chunk_size - overlap)

\* C5 amended: under a valid configuration the loop makes at most
\* len(text) iterations, text being the trimmed text: one per offset the
\* cursor can stand at.
C5_IterationsAtMostLength ==
    ValidConfig => Len(ranges) <= Len(text)

\* C5 witness: a run under a valid configuration with target_size > 1 that
\* made more iterations than len(text) / max(1, target_size - overlap) + 3
C5_Witness ==
    /\ pc = "done"
    /\ ValidConfig
    /\ chunk_size > 1
    /\ Len(ranges) * Max(1, chunk_size - overlap)
           > Len(text) + 3 * Max(1, chunk_size - overlap)

\* every character of t is whitespace
Blank(t) == \A i \in 1..Len(t) : t[i] \in Whitespace

\* c is not empty and neither begins nor ends with whitespace
Trimmed(c) == c # << >> /\ c[1] \notin Whitespace /\ c[Len(c)] \notin Whitespace

\* C6: short input.  For every text that is not blank with
\* len(text) <= target_size, whatever the overlap, the token validation and
\* min_chunk_size, chunk_text returns the one-element list [trim(text)]
\* without entering its loop.
C6_ShortInput ==
    (~Blank(source) /\ Len(source) <= chunk_size) =>
        /\ pc \in {"call", "done"}
        /\ pc = "done" => chunks = << PyStrip(source) >>

\* C6 witness: a short text with whitespace around it was returned, with
\* overlap, token validation and merging asked for
C6_Witness ==
    /\ pc = "done"
    /\ ~Blank(source)
    /\ Len(source) <= chunk_size
    /\ PyStrip(source) # source
    /\ overlap > 0 /\ use_tokens /\ min_chunk_size > 0

\* C7: every chunk of chunk_text, before and after the merge pass, is not
\* empty and has no leading or trailing whitespace; a blank text gives the
\* empty list.
C7_ChunksTrimmed ==
    /\ \A k \in 1..Len(chunks) : Trimmed(chunks[k])
    /\ \A k \in 1..Len(raw_chunks) : Trimmed(raw_chunks[k])
    /\ Blank(source) => pc \in {"call", "done"} /\ chunks = << >>

\* C7 witness: a returned list in which the merge pass joined chunks, from
\* a loop in which a range ended with whitespace that the strip removed
C7_Witness ==
    /\ pc = "done"
    /\ Len(chunks) < Len(raw_chunks)
    /\ \E k \in 1..Len(ranges) :
          /\ ranges[k][2] > ranges[k][1]
          /\ ranges[k][2] <= Len(text)
          /\ At(text, ranges[k][2] - 1) \in Whitespace
          /\ ~Blank(PySlice(text, ranges[k][1], ranges[k][2]))

\* c = t[a:b] for some offsets a <= b
IsSubstring(c, t) ==
    \E a \in 0..(Len(t) - Len(c)) : SubSeq(t, a + 1, a + Len(c)) = c

\* C8 as stated: with the merge pass enabled, every chunk chunk_text
\* returns is a contiguous substring of the source text.
C8_ChunksAreSubstrings ==
    (pc = "done" /\ min_chunk_size > 0) =>
        \A k \in 1..Len(chunks) : IsSubstring(chunks[k], source)

\* the chunks cs joined in order, one space between two of them
RECURSIVE SpaceJoined(_)
SpaceJoined(cs) ==
    IF Len(cs) = 1 THEN cs[1]
    ELSE SpaceJoined(SubSeq(cs, 1, Len(cs) - 1)) \o <<" ">> \o cs[Len(cs)]

\* out is raw cut into runs of one or more consecutive chunks, each run
\* joined by single spaces
RECURSIVE IsGrouping(_, _)
IsGrouping(out, raw) ==
    IF out = << >> THEN raw = << >>
    ELSE \E n \in 1..Len(raw) :
            /\ SpaceJoined(SubSeq(raw, 1, n)) = Head(out)
            /\ IsGrouping(Tail(out), SubSeq(raw, n + 1, Len(raw)))

\* C8 amended: every chunk the loop makes is a contiguous substring of the
\* source text, and every chunk chunk_text returns is one of them or
\* several consecutive ones joined by single spaces, in order and with
\* none left out; a returned chunk made of several need not be a substring.
C8_ChunksAreJoinedSubstrings ==
    /\ \A k \in 1..Len(raw_chunks) : IsSubstring(raw_chunks[k], source)
    /\ (pc = "done" /\ ranges # << >>) => IsGrouping(chunks, raw_chunks)
    /\ (pc = "done" /\ ranges = << >>) =>
          \A k \in 1..Len(chunks) : IsSubstring(chunks[k], source)

\* C8 witness: under a valid configuration with the merge pass enabled, a
\* returned chunk that is no substring of the source text
C8_Witness ==
    /\ pc = "done"
    /\ ValidConfig
    /\ min_chunk_size > 0
    /\ \E k \in 1..Len(chunks) : ~IsSubstring(chunks[k], source)

\* the ranges r and span have no offset in common
Apart(r, span) == r[2] <= span[1] \/ r[1] >= span[2]

\* C9: oversized protected span.  Under a valid configuration with
\* overlap = 0, for every protected span longer than target_size the loop
\* has one range that holds the whole span, so is longer than target_size,
\* and no other range meets the span; and whenever an iteration began with
\* the cursor at or after the start of a span and start + target_size
\* inside that span, its end is the end of the span.
C9_OversizedSpan ==
    /\ (pc = "done" /\ ValidConfig /\ overlap = 0) =>
          \A j \in 1..Len(protected_ranges) :
              protected_ranges[j][2] - protected_ranges[j][1] > chunk_size =>
                  \E k \in 1..Len(ranges) :
                      /\ Contains(ranges[k], protected_ranges[j])
                      /\ ranges[k][2] - ranges[k][1] > chunk_size
                      /\ \A m \in (1..Len(ranges)) \ {k} :
                            Apart(ranges[m], protected_ranges[j])
    /\ (pc \in {"loop", "merge"} /\ ValidConfig /\ ranges # << >>
            /\ max_end < Len(text)) =>
          \A j \in 1..Len(protected_ranges) :
              (/\ protected_ranges[j][1] <= ranges[Len(ranges)][1]
               /\ protected_ranges[j][1] <= max_end
               /\ max_end < protected_ranges[j][2]) =>
                  /\ max_end = ranges[Len(ranges)][1] + chunk_size
                  /\ end = protected_ranges[j][2]
                  /\ ranges[Len(ranges)][2] = protected_ranges[j][2]

\* C9 witness: a run with overlap = 0 over a span longer than target_size
\* that does not begin the text, so that one range stopped at the start of
\* the span and the next took the whole span
C9_Witness ==
    /\ pc = "done"
    /\ ValidConfig
    /\ overlap = 0
    /\ \E j \in 1..Len(protected_ranges) : \E k \in 1..Len(ranges) :
          /\ protected_ranges[j][2] - protected_ranges[j][1] > chunk_size
          /\ protected_ranges[j][1] > 0
          /\ ranges[k] = protected_ranges[j]

C11_SelectorProgress ==
    (pc = "selected" /\ start < Len(text) /\ start <= max_end) => end > start

\* C11 amended: for 0 <= start < len(text) the selector returns end > start
\* when start < max_end; when start = max_end it returns the end of the span
\* that holds start if there is one, and start itself otherwise.
C11_ProgressWhenWindowNonEmpty ==
    (pc = "selected" /\ start < Len(text)) =>
        /\ start < max_end => end > start
        /\ start = max_end =>
              IF GetProtectedRangeAt(start, protected_ranges) # None
              THEN end = GetProtectedRangeAt(start, protected_ranges)[1][2]
              ELSE end = start

\* C11 witness: a call with start = max_end inside the text and outside
\* every span returned start, and so made no progress
C11_Witness ==
    /\ pc = "selected"
    /\ start < Len(text)
    /\ start = max_end
    /\ protected_ranges # << >>
    /\ end = start

\* C12: merger invariant.  In the list _merge_small_chunks returns, two
\* adjacent chunks are both shorter than min_size only if joining them with
\* one space would exceed 1.5 * max_size.
C12_NoSmallNeighbours ==
    pc = "merge_returned" =>
        \A k \in 1..(Len(chunks) - 1) :
            (Len(chunks[k]) < min_chunk_size /\ Len(chunks[k + 1]) < min_chunk_size) =>
                2 * (Len(chunks[k]) + Len(chunks[k + 1]) + 1) > 3 * chunk_size

\* C12 witness: the merger fused some chunks and still returned two
\* adjacent chunks that are both shorter than min_size
C12_Witness ==
    /\ pc = "merge_returned"
    /\ Len(chunks) < Len(raw_chunks)
    /\ \E k \in 1..(Len(chunks) - 1) :
          Len(chunks[k]) < min_chunk_size /\ Len(chunks[k + 1]) < min_chunk_size

\* the chunks of a call of SpecMerge hold no space, so a returned chunk
\* that holds one is a fusion of two or more input chunks
IsFusion(c) == \E i \in 1..Len(c) : c[i] = " "

\* C13: merge ceiling.  Every chunk _merge_small_chunks returns that is a
\* fusion of two or more input chunks has length <= int(1.5 * max_size),
\* and a returned chunk longer than that limit is a single input chunk that
\* was already longer than the limit.
C13_MergeCeiling ==
    pc = "merge_returned" =>
        \A k \in 1..Len(chunks) :
            /\ IsFusion(chunks[k]) => Len(chunks[k]) <= TruncDiv(3 * chunk_size, 2)
            /\ Len(chunks[k]) > TruncDiv(3 * chunk_size, 2) =>
                  \E m \in 1..Len(raw_chunks) : raw_chunks[m] = chunks[k]

\* C13 witness: the merger returned a fusion of exactly the greatest length
\* allowed next to a single chunk that is longer than the limit
C13_Witness ==
    /\ pc = "merge_returned"
    /\ \E k \in 1..Len(chunks) :
          IsFusion(chunks[k]) /\ Len(chunks[k]) = TruncDiv(3 * chunk_size, 2)
    /\ \E k \in 1..Len(chunks) :
          ~IsFusion(chunks[k]) /\ Len(chunks[k]) > TruncDiv(3 * chunk_size, 2)

\* the offsets the ranges rs cover
Offsets(rs) == UNION {rs[k][1]..(rs[k][2] - 1) : k \in 1..Len(rs)}

\* C14: protected-span merge.  For every list of raw matched ranges the
\* ranges _find_protected_ranges returns are sorted by start, each starts
\* strictly after the end of the one before it (disjoint and not touching),
\* and together they cover exactly the offsets the raw ranges cover.
C14_MergedRanges ==
    pc = "detect_merged" =>
        /\ \A k \in 1..Len(protected_ranges) :
              protected_ranges[k][1] < protected_ranges[k][2]
        /\ \A k \in 1..(Len(protected_ranges) - 1) :
              protected_ranges[k + 1][1] > protected_ranges[k][2]
        /\ Offsets(protected_ranges) = Offsets(ranges)

\* C14 witness: three raw matches appended out of order, two of which
\* touch without overlapping, were coalesced into two ranges
C14_Witness ==
    /\ pc = "detect_merged"
    /\ Len(ranges) = 3
    /\ ranges[1][1] > ranges[2][1]
    /\ \E i, j \in 1..3 : ranges[i][2] = ranges[j][1]
    /\ Len(protected_ranges) = 2

\* C15 as stated: degenerate configuration.  A call with target_size <= 0
\* or overlap >= target_size is rejected with an error before any chunk is
\* produced: it never returns a list and never enters the loop.  Stated for
\* the calls with a text that is not blank.
C15_DegenerateRejected ==
    (~Blank(source) /\ (chunk_size <= 0 \/ overlap >= chunk_size)) =>
        \/ pc = "call"
        \/ pc = "raised" /\ ranges = << >> /\ chunks = << >>

\* C16 as stated: token-oracle failure.  A failure of the token oracle
\* while a chunk is validated never aborts the call: chunk_text does not
\* leave by the exception.
C16_OracleFailureSkipped == pc # "raised"

\* the documents of ds that have a text, in order
RECURSIVE WithText(_)
WithText(ds) ==
    IF ds = << >> THEN << >>
    ELSE IF Get(Head(ds), "text", << >>) = << >> THEN WithText(Tail(ds))
    ELSE << Head(ds) >> \o WithText(Tail(ds))

\* out is, document by document of ds, one entry for each chunk of
\* chunk_text, with the ids d.id-chunk-0 .. d.id-chunk-(n-1), the matching
\* chunk_index and the document's metadata
RECURSIVE IsChunkingOf(_, _)
IsChunkingOf(out, ds) ==
    IF ds = << >> THEN out = << >>
    ELSE \A d \in {Head(ds)} :
           \A cs \in {ChunkText(d.text, chunk_size, overlap, use_tokens,
                                DefaultMinChunkSize)} :
             /\ Len(out) >= Len(cs)
             /\ \A k \in 1..Len(cs) :
                   /\ out[k].id = d.id \o ChunkMark \o Decimal(k - 1)
                   /\ out[k].text = cs[k]
                   /\ out[k].metadata.chunk_index = k - 1
                   /\ \A f \in {"channel", "channel_name", "user", "ts", "permalink"} :
                         out[k].metadata[f] = Get(d, f, "")
             /\ IsChunkingOf(SubSeq(out, Len(cs) + 1, Len(out)), Tail(ds))

\* C17: chunk_documents.  Documents with an empty text give no entry; the
\* others give, in input order, one entry for each chunk of chunk_text with
\* the ids d.id-chunk-0 .. d.id-chunk-(n-1), chunk_index equal to the
\* position and the document's metadata; and when the ids of the input
\* documents are pairwise distinct, so are the ids of the entries.
C17_ChunkDocuments ==
    pc = "docs_done" =>
        /\ IsChunkingOf(chunked_docs, WithText(docs))
        /\ (\A i, j \in 1..Len(docs) : i # j => docs[i].id # docs[j].id) =>
              \A i, j \in 1..Len(chunked_docs) :
                  i # j => chunked_docs[i].id # chunked_docs[j].id

\* C17 witness: two documents with distinct ids, one id being the other
\* followed by -chunk-0, both cut into more than ten chunks
C17_Witness ==
    /\ pc = "docs_done"
    /\ Len(docs) = 2
    /\ docs[2].id = docs[1].id \o ChunkMark \o <<"0">>
    /\ Len(chunked_docs) > 20

Ceiling ==
    IF GetProtectedRangeAt(max_end, protected_ranges) # None
    THEN GetProtectedRangeAt(max_end, protected_ranges)[1][1]
    ELSE max_end

\* the offsets of the back-half window (start + 0.5*(ceiling - start),
\* ceiling] that are valid candidates: outside every span, of some break
\* type, and with the character before the break outside every span
Candidates ==
    {i \in (start + TruncDiv(Ceiling - start, 2) + 1)..Ceiling :
        /\ GetProtectedRangeAt(i, protected_ranges) = None
        /\ BreakTypeAt(text, i) # None
        /\ GetProtectedRangeAt(BreakTypeAt(text, i)[1][2] - 1, protected_ranges) = None}

PriorityOf(i) == BreakTypeAt(text, i)[1][1]

BreakOf(i) == BreakTypeAt(text, i)[1][2]

\* the selector has returned from a search below a ceiling past start
Searched == pc = "selected" /\ max_end < Len(text) /\ Ceiling > start

\* C20 as stated: priority ladder.  When the window holds valid candidates
\* the selector returns the break of a candidate of the best priority
\* class present in the window, wherever the candidates lie.
C20_BestClassInWindow ==
    (Searched /\ Candidates # { }) =>
        \E i \in Candidates :
            /\ end = BreakOf(i)
            /\ \A j \in Candidates : PriorityOf(i) <= PriorityOf(j)

\* C20 amended: when the window holds a paragraph or sentence candidate the
\* selector returns the break of the one nearest the ceiling, be it a
\* sentence end with a paragraph break further back; otherwise it returns
\* the break of the newline nearest the ceiling if there is one, else of
\* the space nearest the ceiling.
C20_NearestStrongElseBestWeak ==
    (Searched /\ Candidates # { }) =>
        LET strong == {i \in Candidates : PriorityOf(i) <= 2}
            best == {i \in Candidates : \A j \in Candidates : PriorityOf(i) <= PriorityOf(j)}
        IN  IF strong # { }
            THEN end = BreakOf(CHOOSE i \in strong : \A j \in strong : i >= j)
            ELSE end = BreakOf(CHOOSE i \in best : \A j \in best : i >= j)

\* C20 witness: the window held a paragraph break and, nearer the ceiling,
\* a sentence end, and the selector returned the break of the sentence end
C20_Witness ==
    /\ Searched
    /\ \E i, j \in Candidates :
          /\ PriorityOf(i) = 1
          /\ PriorityOf(j) = 2
          /\ i < j
          /\ end = BreakOf(j)
          /\ end # BreakOf(i)

\* the selector returned a mid-word break: an offset that is not the end of
\* the text, is the end of no span, and has no space or newline before it
MidWordBreak ==
    /\ pc = "selected"
    /\ end # Len(text)
    /\ \A j \in 1..Len(protected_ranges) : end # protected_ranges[j][2]
    /\ ~(end > 0 /\ At(text, end - 1) \in {" ", "\n"})

\* the offsets of (start, ceiling] that hold a space outside every span
UnprotectedSpaces ==
    {i \in (start + 1)..Ceiling :
        At(text, i) = " " /\ GetProtectedRangeAt(i, protected_ranges) = None}

C22_OverlapWindow ==
    [][(/\ pc = "loop"
        /\ start < Len(text)
        /\ start + chunk_size < Len(text)
        /\ pc' \in {"loop", "merge"}
        /\ ValidConfig
        /\ overlap > 0)
       => /\ pc' = "loop"
          /\ ranges' = Append(ranges, <<start, end'>>)
          /\ Max(start, end' - overlap) < start'
          /\ start' <= end'
          /\ start' = end' \/ At(text, start' - 1) = " "
          /\ end' - start' < overlap]_vars

\* C22 witness: under 0 < overlap < target_size the cursor stands just
\* after a space, before the end of the range just chosen, which it
\* therefore overlaps
C22_Witness ==
    /\ pc = "loop"
    /\ ValidConfig
    /\ overlap > 0
    /\ ranges # << >>
    /\ ranges[Len(ranges)][2] = end
    /\ start < end
    /\ At(text, start - 1) = " "
    /\ start > ranges[Len(ranges)][1]

\* the end first chosen by the selector in the iteration at hand, line 299
\* with the safety check of lines 302-303
FirstEnd ==
    SelectedEnd(text, start, Min(start + chunk_size, Len(text)), protected_ranges)

\* C23: token validation only shrinks.  In every iteration of chunk_text
\* that is not the last chunk, the end the iteration settles on, after the
\* reduction pass, is not greater than the end first chosen by the
\* selector; so an accepted reduction never makes the chunk longer.
C23_ReductionOnlyShrinks ==
    [][(/\ pc = "loop"
        /\ start < Len(text)
        /\ start + chunk_size < Len(text)
        /\ pc' \in {"loop", "merge"})
       => end' <= FirstEnd]_vars

\* every chunk passed to the merger holds at least one character
NonEmptyInput == \A k \in 1..Len(raw_chunks) : raw_chunks[k] # << >>

\* C25: merge fixed point.  In the list _merge_small_chunks returns for
\* chunks that are all non-empty, every adjacent pair with a member shorter
\* than min_size cannot be fused: len(a) + len(b) + 1 > int(1.5 * max_size);
\* and _merge_small_chunks applied to the list it returned returns it
\* unchanged.
C25_MergeFixedPoint ==
    (pc = "merge_returned" /\ NonEmptyInput) =>
        /\ \A k \in 1..(Len(chunks) - 1) :
              (Len(chunks[k]) < min_chunk_size \/ Len(chunks[k + 1]) < min_chunk_size) =>
                  Len(chunks[k]) + Len(chunks[k + 1]) + 1 > TruncDiv(3 * chunk_size, 2)
        /\ MergeSmallChunks(chunks, min_chunk_size, chunk_size) = chunks

\* C25 witness: the merger fused some chunks and returned a chunk shorter
\* than min_size between two neighbours
C25_Witness ==
    /\ pc = "merge_returned"
    /\ NonEmptyInput
    /\ Len(chunks) < Len(raw_chunks)
    /\ \E k \in 2..(Len(chunks) - 1) : Len(chunks[k]) < min_chunk_size

\* " ".join(cs), the empty list included
JoinedBySpaces(cs) == IF cs = << >> THEN << >> ELSE SpaceJoined(cs)

\* C26: merge preserves content and order.  For chunks that are all
\* non-empty and every min_size and max_size, the list _merge_small_chunks
\* returns joined with single spaces is the input joined with single
\* spaces; it has no more chunks than the input, and strictly fewer when
\* some adjacent input pair has a member shorter than min_size and fits
\* within the merge limit.
C26_MergePreservesContent ==
    (pc = "merge_returned" /\ NonEmptyInput) =>
        /\ JoinedBySpaces(chunks) = JoinedBySpaces(raw_chunks)
        /\ Len(chunks) <= Len(raw_chunks)
        /\ (\E k \in 1..(Len(raw_chunks) - 1) :
               /\ Len(raw_chunks[k]) < min_chunk_size
                     \/ Len(raw_chunks[k + 1]) < min_chunk_size
               /\ Len(raw_chunks[k]) + Len(raw_chunks[k + 1]) + 1
                     <= TruncDiv(3 * chunk_size, 2))
              => Len(chunks) < Len(raw_chunks)

\* C26 witness: the merger fused chunks at two places of the list and kept
\* a chunk apart between them
C26_Witness ==
    /\ pc = "merge_returned"
    /\ NonEmptyInput
    /\ Len(raw_chunks) = Len(chunks) + 2
    /\ Len(chunks) >= 2
    /\ IsFusion(chunks[1])
    /\ IsFusion(chunks[Len(chunks)])

\* the list the first pass of _merge_small_chunks leaves for the input of
\* the call, lines 193-225
FirstPassResult ==
    IF Len(raw_chunks) <= 1 THEN raw_chunks
    ELSE FirstPass(raw_chunks, 2, << >>, raw_chunks[1], min_chunk_size,
                   MergeLimit(chunk_size))

\* C30: the boundary cleanup passes are no-ops.  For chunks that are all
\* non-empty and every min_size and max_size, the list the first
\* left-to-right pass of _merge_small_chunks produces is the list the call
\* returns: neither the tail cleanup nor the head cleanup changes it.
C30_CleanupPassesNoOps ==
    (pc = "merge_returned" /\ NonEmptyInput) => chunks = FirstPassResult

\* C30 witness: the call returned two or more chunks of which the first and
\* the last are shorter than min_size, so both cleanup passes came to their
\* test of the merge limit
C30_Witness ==
    /\ pc = "merge_returned"
    /\ NonEmptyInput
    /\ Len(chunks) > 1
    /\ Len(chunks) < Len(raw_chunks)
    /\ Len(chunks[1]) < min_chunk_size
    /\ Len(chunks[Len(chunks)]) < min_chunk_size

\* c is the chunk of a single range of the loop that lies inside one
\* protected span and ends at the end of that span
SwallowedSpanChunk(c) ==
    \E k \in 1..Len(ranges) :
        /\ c = PyStrip(PySlice(text, ranges[k][1], ranges[k][2]))
        /\ \E j \in 1..Len(protected_ranges) :
              /\ protected_ranges[j][1] <= ranges[k][1]
              /\ ranges[k][2] = protected_ranges[j][2]

\* C27: chunk size bound.  For every text and valid configuration, every
\* chunk chunk_text returns has length <= 1.5 * target_size, and
\* <= target_size when merging is disabled (min_chunk_size <= 0), unless it
\* is the unmerged chunk of a range that lies inside one protected span and
\* ends at the end of that span.
C27_ChunkSizeBound ==
    (pc = "done" /\ ValidConfig) =>
        \A k \in 1..Len(chunks) :
            \/ /\ min_chunk_size > 0
               /\ 2 * Len(chunks[k]) <= 3 * chunk_size
            \/ Len(chunks[k]) <= chunk_size
            \/ SwallowedSpanChunk(chunks[k])

\* C27 witness: with merging enabled chunk_text returned a fused chunk
\* longer than target_size and a chunk longer than 1.5 * target_size
C27_Witness ==
    /\ pc = "done"
    /\ ValidConfig
    /\ min_chunk_size > 0
    /\ \E k \in 1..Len(chunks) :
          /\ Len(chunks[k]) > chunk_size
          /\ 2 * Len(chunks[k]) <= 3 * chunk_size
          /\ ~SwallowedSpanChunk(chunks[k])
    /\ \E k \in 1..Len(chunks) : 2 * Len(chunks[k]) > 3 * chunk_size

(***************************************************************************)
(* EmbeddingClient.embed_texts (embed.py lines 24-59).  The embeddings API *)
(* answers each call with a response, a rate-limit error or another error; *)
(* time.sleep is recorded by its argument.                                 *)
(***************************************************************************)
\* greatest max_retries of a call
MaxRetries == 3
\* greatest retry_delay of a call
MaxDelay == 2

\* the variables of chunk_text but pc
chunkVars == <<source, text, chunk_size, overlap, use_tokens, min_chunk_size,
               protected_ranges, start, max_end, end, chunks, ranges, raw_chunks>>

\* chunk_text is not at work
ChunkIdle ==
    /\ source = << >>
    /\ text = << >>
    /\ chunk_size = 0
    /\ overlap = 0
    /\ use_tokens = FALSE
    /\ min_chunk_size = 0
    /\ protected_ranges = << >>
    /\ start = 0
    /\ max_end = 0
    /\ end = 0
    /\ chunks = << >>
    /\ ranges = << >>
    /\ raw_chunks = << >>

\* 2**n
RECURSIVE Pow2(_)
Pow2(n) == IF n = 0 THEN 1 ELSE 2 * Pow2(n - 1)

\* wait_time without the backoff: retry_delay at every attempt
WaitTimeConstant(delay, n) == delay

\* line 49: retry_delay * (2**attempt)
WaitTime(delay, n) == delay * Pow2(n)

\* the response of the API to the call of attempt n: one item for each
\* text, its embedding marked by the attempt that produced it
Response(ts, n) ==
    [data |-> [k \in 1..Len(ts) |-> [index |-> k - 1, embedding |-> <<n, ts[k]>>]]]

\* line 44: [item.embedding for item in response.data]
EmbeddingsOf(response) ==
    [k \in 1..Len(response.data) |-> response.data[k].embedding]

\* how a call leaves: by a return of a value or by a raise of an error
Returned(v) == Some(<<"return", v>>)

Raised(e) == Some(<<"raise", e>>)

\* the state at the call embed_texts(ts, retries, delay)
EmbedCalled(ts, retries, delay) ==
    /\ ChunkIdle
    /\ pc = "embed_call"
    /\ docs = << >>
    /\ doc_index = 0
    /\ chunked_docs = << >>
    /\ store = { }
    /\ runs = << >>
    /\ calls = << >>
    /\ texts = ts
    /\ max_retries = retries
    /\ retry_delay = delay
    /\ attempt = 0
    /\ requests = << >>
    /\ sleeps = << >>
    /\ outcome = None
    /\ history = << >>
    /\ ops = << >>

InitEmbed ==
    \E ts \in { << >>, << <<"a">> >>, << <<"a">>, <<"b">> >> },
       retries \in 0..MaxRetries, delay \in 0..MaxDelay :
        EmbedCalled(ts, retries, delay)

\* lines 38-39: no texts, no call of the API
EmbedReturnEmpty ==
    /\ pc = "embed_call"
    /\ texts = << >>
    /\ outcome' = Returned(<< >>)
    /\ pc' = "embed_done"
    /\ UNCHANGED chunkVars
    /\ UNCHANGED <<docs, doc_index, chunked_docs, store, runs, calls>>
    /\ UNCHANGED <<texts, max_retries, retry_delay, attempt, requests, sleeps,
                   history, ops>>

\* line 41: the loop begins
EmbedEnterLoop ==
    /\ pc = "embed_call"
    /\ texts # << >>
    /\ attempt' = 0
    /\ pc' = "embed_try"
    /\ UNCHANGED chunkVars
    /\ UNCHANGED <<docs, doc_index, chunked_docs, store, runs, calls>>
    /\ UNCHANGED <<texts, max_retries, retry_delay, requests, sleeps, outcome,
                   history, ops>>

\* lines 41 and 59: range(max_retries) is used up
EmbedExhausted ==
    /\ pc = "embed_try"
    /\ attempt >= max_retries
    /\ outcome' = Returned(<< >>)
    /\ pc' = "embed_done"
    /\ UNCHANGED chunkVars
    /\ UNCHANGED <<docs, doc_index, chunked_docs, store, runs, calls>>
    /\ UNCHANGED <<texts, max_retries, retry_delay, attempt, requests, sleeps,
                   history, ops>>

\* lines 42-45: the API answers and the embeddings are returned
EmbedSucceeds ==
    /\ pc = "embed_try"
    /\ attempt < max_retries
    /\ requests' = Append(requests, "ok")
    /\ outcome' = Returned(EmbeddingsOf(Response(texts, attempt)))
    /\ pc' = "embed_done"
    /\ UNCHANGED chunkVars
    /\ UNCHANGED <<docs, doc_index, chunked_docs, store, runs, calls>>
    /\ UNCHANGED <<texts, max_retries, retry_delay, attempt, sleeps, history, ops>>

\* lines 47-53: the API raises RateLimitError; the call sleeps and goes on,
\* or raises the error at the last attempt
EmbedRateLimited ==
    /\ pc = "embed_try"
    /\ attempt < max_retries
    /\ requests' = Append(requests, "rate_limit")
    /\ IF attempt < max_retries - 1
       THEN /\ sleeps' = Append(sleeps, WaitTime(retry_delay, attempt))
            /\ attempt' = attempt + 1
            /\ pc' = "embed_try"
            /\ UNCHANGED outcome
       ELSE /\ outcome' = Raised("RateLimitError")
            /\ pc' = "embed_done"
            /\ UNCHANGED <<sleeps, attempt>>
    /\ UNCHANGED chunkVars
    /\ UNCHANGED <<docs, doc_index, chunked_docs, store, runs, calls>>
    /\ UNCHANGED <<texts, max_retries, retry_delay, history, ops>>

\* lines 55-57: the API raises another error, which is raised at once
EmbedFails ==
    /\ pc = "embed_try"
    /\ attempt < max_retries
    /\ requests' = Append(requests, "error")
    /\ outcome' = Raised("Exception")
    /\ pc' = "embed_done"
    /\ UNCHANGED chunkVars
    /\ UNCHANGED <<docs, doc_index, chunked_docs, store, runs, calls>>
    /\ UNCHANGED <<texts, max_retries, retry_delay, attempt, sleeps, history, ops>>

NextEmbed ==
    \/ EmbedReturnEmpty
    \/ EmbedEnterLoop
    \/ EmbedExhausted
    \/ EmbedSucceeds
    \/ EmbedRateLimited
    \/ EmbedFails

SpecEmbed == InitEmbed /\ [][NextEmbed]_vars

\* C24: embedding retry.  embed_texts on a non-empty input, with
\* max_retries >= 0, calls the API at most max_retries times; every call
\* but the latest ended in a rate-limit error, and before the call of
\* attempt k + 1 it slept retry_delay * 2^k; it returns the embeddings of
\* the first call that succeeds, raises the rate-limit error when the call
\* of the last attempt is rate-limited, and raises any other error at once.
C24_EmbedRetry ==
    (texts # << >> /\ pc \in {"embed_try", "embed_done"}) =>
        LET n == Len(requests)
        IN  /\ n <= max_retries
            /\ \A k \in 1..(n - 1) : requests[k] = "rate_limit"
            /\ Len(sleeps) = IF pc = "embed_done" THEN Max(n - 1, 0) ELSE n
            /\ \A k \in 1..Len(sleeps) : sleeps[k] = retry_delay * Pow2(k - 1)
            /\ pc = "embed_try" =>
                  /\ outcome = None
                  /\ \A k \in 1..n : requests[k] = "rate_limit"
            /\ (pc = "embed_done" /\ n > 0) =>
                  /\ outcome # None
                  /\ requests[n] = "ok" =>
                        /\ outcome[1][1] = "return"
                        /\ outcome[1][2] = [k \in 1..Len(texts) |-> <<n - 1, texts[k]>>]
                  /\ requests[n] = "rate_limit" =>
                        /\ n = max_retries
                        /\ outcome[1][1] = "raise"
                        /\ outcome[1][2] = "RateLimitError"
                  /\ requests[n] = "error" =>
                        /\ outcome[1][1] = "raise"
                        /\ outcome[1][2] = "Exception"

\* C24 witness: a call on two texts was rate-limited twice, slept 2 and 4
\* seconds, and returned the embeddings of its third call of the API
C24_Witness ==
    /\ pc = "embed_done"
    /\ Len(texts) = 2
    /\ requests = <<"rate_limit", "rate_limit", "ok">>
    /\ sleeps = <<2, 4>>
    /\ outcome # None
    /\ outcome[1][1] = "return"

(***************************************************************************)
(* The ingestion paths: the message event (slack_app.py lines 106-179,     *)
(* realtime.py lines 16-158), the startup catch-up (startup.py lines       *)
(* 47-172) and the indexing of a channel's history (slack_fetch.py lines   *)
(* 65-139, slack_app.py lines 182-256, startup.py lines 199-266).  Ids,    *)
(* channels, timestamps and texts are sequences of characters; users and   *)
(* permalinks are strings.  Real-time indexing is enabled for every        *)
(* channel, conversations_info answers, and the limits of the fetches are  *)
(* not reached.                                                            *)
(***************************************************************************)
\* most messages of the workspace
MaxMessages == 2
\* most ingestion operations of a run
MaxOps == 2

\* the chunk_size and overlap of index_slack_message and index_documents
IndexChunkSize == 600

IndexOverlap == 100

GeneralChannel == <<"C", "1">>

RandomChannel == <<"C", "2">>

DirectChannel == <<"D", "1">>

\* the channels the bot is a member of, as conversations_list gives them
JoinedChannels == << GeneralChannel, RandomChannel >>

\* the name of a channel
ChannelName(channel) ==
    IF channel = GeneralChannel THEN <<"g", "e", "n">>
    ELSE IF channel = RandomChannel THEN <<"r", "a", "n">>
    ELSE channel

\* raw messages: of a user, in a thread with blanks around the text, of a
\* bot by bot_id, of a bot by subtype, with a blank text, and a direct
\* message
MessagePool ==
    { [channel |-> GeneralChannel, ts |-> <<"1">>, text |-> <<"h", "i">>, user |-> "U1"],
      [channel |-> GeneralChannel, ts |-> <<"2">>, text |-> <<" ", "a", " ", "b", " ">>,
       user |-> "U2", thread_ts |-> <<"1">>],
      [channel |-> GeneralChannel, ts |-> <<"3">>, text |-> <<"b", "o", "t">>,
       user |-> "U9", bot_id |-> "B1"],
      [channel |-> RandomChannel, ts |-> <<"4">>, text |-> <<"x">>,
       subtype |-> "bot_message"],
      [channel |-> RandomChannel, ts |-> <<"5">>, text |-> <<" ">>, user |-> "U1"],
      [channel |-> DirectChannel, ts |-> <<"6">>, text |-> <<"q">>, user |-> "U1"] }

\* the sequences of n different messages
Histories(n) ==
    {h \in [1..n -> MessagePool] : \A i, j \in 1..n : i # j => h[i] # h[j]}

\* what get_permalink gives: None when the request fails
Links == {None, Some("https://p")}

\* permalink or ""
LinkOrEmpty(link) == IF link = None THEN "" ELSE link[1]

\* f"{channel}-{ts}"
MessageId(channel, ts) == channel \o <<"-">> \o ts

\* msg.get("bot_id") or msg.get("subtype") == "bot_message"
IsBotMessage(msg) ==
    \/ Get(msg, "bot_id", "") # ""
    \/ Get(msg, "subtype", "") = "bot_message"

\* channel_id.startswith("D")
IsDmChannel(channel) == StartsWith(channel, 0, <<"D">>)

\* the lists of a list of lists, one after the other
RECURSIVE Flatten(_)
Flatten(ss) == IF ss = << >> THEN << >> ELSE Head(ss) \o Flatten(Tail(ss))

\* realtime.py lines 39-78, normalize_slack_message: None, or Some of the
\* document; thread_ts is copied when the message has it
NormalizeSlackMessage(msg, link) ==
    IF IsBotMessage(msg) THEN None
    ELSE IF PyStrip(Get(msg, "text", << >>)) = << >> THEN None
    ELSE IF Get(msg, "channel", << >>) = << >> \/ Get(msg, "ts", << >>) = << >>
         THEN None
    ELSE LET doc == [id |-> MessageId(msg.channel, msg.ts),
                     channel |-> msg.channel,
                     channel_name |-> ChannelName(msg.channel),
                     text |-> PyStrip(Get(msg, "text", << >>)),
                     user |-> Get(msg, "user", "unknown"),
                     ts |-> msg.ts,
                     permalink |-> LinkOrEmpty(link)]
         IN  IF "thread_ts" \in DOMAIN msg
             THEN Some([k \in DOMAIN doc \cup {"thread_ts"} |->
                           IF k = "thread_ts" THEN msg.thread_ts ELSE doc[k]])
             ELSE Some(doc)

\* realtime.py lines 105-135, index_slack_messages on one message: the
\* batch that goes to the store
RealtimeBatch(msg, link) ==
    LET doc == NormalizeSlackMessage(msg, link)
    IN  IF doc = None THEN << >>
        ELSE ChunkDocuments(<< doc[1] >>, IndexChunkSize, IndexOverlap, TRUE)

\* slack_app.py lines 111-162, handle_message: the batch of the event, none
\* for a bot message, a blank text or a direct message
EventBatch(msg, link) ==
    IF IsBotMessage(msg) THEN << >>
    ELSE IF PyStrip(Get(msg, "text", << >>)) = << >> THEN << >>
    ELSE IF IsDmChannel(Get(msg, "channel", << >>)) THEN << >>
    ELSE RealtimeBatch(msg, link)

\* startup.py lines 77-99, fetch_recent_messages: the documents of the
\* messages of channel among those of the last hours
RecentDocs(channel, recent) ==
    Flatten([k \in 1..Len(history) |->
        IF k \notin recent \/ history[k].channel # channel THEN << >>
        ELSE IF IsBotMessage(history[k]) THEN << >>
        ELSE IF PyStrip(Get(history[k], "text", << >>)) = << >> THEN << >>
        ELSE << [id |-> MessageId(channel, Get(history[k], "ts", << >>)),
                 channel |-> channel,
                 channel_name |-> ChannelName(channel),
                 text |-> PyStrip(Get(history[k], "text", << >>)),
                 user |-> Get(history[k], "user", "unknown"),
                 ts |-> Get(history[k], "ts", << >>),
                 permalink |-> ""] >>])

\* startup.py lines 140-161: the documents of all joined channels
StartupDocs(recent) ==
    Flatten([c \in 1..Len(JoinedChannels) |-> RecentDocs(JoinedChannels[c], recent)])

\* slack_fetch.py lines 101-123, fetch_channel_messages: a document for
\* every message of the channel that has a text; the test for bot
\* messages is commented out (lines 106-108)
FetchChannelMessages(channel, links) ==
    Flatten([k \in 1..Len(history) |->
        IF history[k].channel # channel THEN << >>
        ELSE IF "text" \notin DOMAIN history[k] \/ PyStrip(history[k].text) = << >>
             THEN << >>
        ELSE << [id |-> MessageId(channel, history[k].ts),
                 channel |-> channel,
                 channel_name |-> ChannelName(channel),
                 text |-> history[k].text,
                 user |-> Get(history[k], "user", "unknown"),
                 ts |-> history[k].ts,
                 permalink |-> LinkOrEmpty(links[k])] >>])

\* realtime.py lines 188-205, index_documents: the store after the call;
\* stored is whether the upsert goes through (the embedding may raise)
IndexDocuments(st, ds, stored) ==
    IF ds = << >> THEN st
    ELSE CHOOSE after \in
             {IF batch = << >> \/ ~stored THEN st ELSE Upsert(st, batch) :
                 batch \in {ChunkDocuments(ds, IndexChunkSize, IndexOverlap, TRUE)}} :
             TRUE

\* startup.py lines 175-196 and 223-237: the joined channels that have no
\* entry in the store
NewChannels(st) ==
    SelectSeq(JoinedChannels,
              LAMBDA c : \A e \in st : e.metadata.channel # c)

\* startup.py lines 245-263: each new channel is fetched and indexed
RECURSIVE IndexNewChannels(_, _, _, _)
IndexNewChannels(st, channels, links, stored) ==
    IF channels = << >> THEN st
    ELSE IndexNewChannels(
             IndexDocuments(st, FetchChannelMessages(Head(channels), links), stored),
             Tail(channels), links, stored)

\* the state of a run: the workspace holds the messages h, the store is
\* empty
IngestCalled(h) ==
    /\ ChunkIdle
    /\ pc = "ingest"
    /\ docs = << >>
    /\ doc_index = 0
    /\ chunked_docs = << >>
    /\ store = { }
    /\ runs = << >>
    /\ calls = << >>
    /\ texts = << >>
    /\ max_retries = 0
    /\ retry_delay = 0
    /\ attempt = 0
    /\ requests = << >>
    /\ sleeps = << >>
    /\ outcome = << >>
    /\ history = h
    /\ ops = << >>

InitIngest == \E n \in 0..MaxMessages : \E h \in Histories(n) : IngestCalled(h)

\* slack_app.py lines 106-179: the event of a message of the workspace
HandleMessage ==
    /\ pc = "ingest"
    /\ Len(ops) < MaxOps
    /\ \E k \in 1..Len(history), link \in Links, stored \in BOOLEAN :
          /\ store' = (CHOOSE after \in
                          {IF batch = << >> \/ ~stored THEN store
                           ELSE Upsert(store, batch) :
                              batch \in {EventBatch(history[k], link)}} : TRUE)
          /\ ops' = Append(ops, [op |-> "handle_message",
                                 id |-> MessageId(history[k].channel, history[k].ts)])
    /\ UNCHANGED chunkVars
    /\ UNCHANGED <<pc, docs, doc_index, chunked_docs, runs, calls>>
    /\ UNCHANGED <<texts, max_retries, retry_delay, attempt, requests, sleeps,
                   outcome, history>>

\* startup.py lines 107-172, startup_index: the recent messages of the
\* joined channels are indexed in one call
StartupIndex ==
    /\ pc = "ingest"
    /\ Len(ops) < MaxOps
    /\ \E recent \in SUBSET (1..Len(history)), stored \in BOOLEAN :
          store' = IndexDocuments(store, StartupDocs(recent), stored)
    /\ ops' = Append(ops, [op |-> "startup_index", id |-> << >>])
    /\ UNCHANGED chunkVars
    /\ UNCHANGED <<pc, docs, doc_index, chunked_docs, runs, calls>>
    /\ UNCHANGED <<texts, max_retries, retry_delay, attempt, requests, sleeps,
                   outcome, history>>

\* slack_app.py lines 182-256: the bot has joined a channel, whose history
\* is indexed in the background
IndexChannelBackground ==
    /\ pc = "ingest"
    /\ Len(ops) < MaxOps
    /\ \E c \in 1..Len(JoinedChannels), links \in [1..Len(history) -> Links],
          stored \in BOOLEAN :
          /\ store' = IndexDocuments(store,
                                     FetchChannelMessages(JoinedChannels[c], links),
                                     stored)
          /\ ops' = Append(ops, [op |-> "index_channel", id |-> JoinedChannels[c]])
    /\ UNCHANGED chunkVars
    /\ UNCHANGED <<pc, docs, doc_index, chunked_docs, runs, calls>>
    /\ UNCHANGED <<texts, max_retries, retry_delay, attempt, requests, sleeps,
                   outcome, history>>

\* startup.py lines 199-266, check_and_index_new_channels
CheckAndIndexNewChannels ==
    /\ pc = "ingest"
    /\ Len(ops) < MaxOps
    /\ \E links \in [1..Len(history) -> Links], stored \in BOOLEAN :
          store' = IndexNewChannels(store, NewChannels(store), links, stored)
    /\ ops' = Append(ops, [op |-> "check_new_channels", id |-> << >>])
    /\ UNCHANGED chunkVars
    /\ UNCHANGED <<pc, docs, doc_index, chunked_docs, runs, calls>>
    /\ UNCHANGED <<texts, max_retries, retry_delay, attempt, requests, sleeps,
                   outcome, history>>

NextIngest ==
    \/ HandleMessage
    \/ StartupIndex
    \/ IndexChannelBackground
    \/ CheckAndIndexNewChannels

SpecIngest == InitIngest /\ [][NextIngest]_vars

\* the entry e of the store is a chunk of the message of id
ChunkOfMessage(e, id) == e.id = ChunkId(id, e.metadata.chunk_index)

\* C28: bot messages are never indexed.  After any sequence of ingestion
\* operations the store holds no chunk of a message of the workspace that
\* carries a bot_id or the subtype bot_message.
C28_NoBotChunks ==
    pc = "ingest" =>
        \A e \in store : \A k \in 1..Len(history) :
            IsBotMessage(history[k]) =>
                ~ChunkOfMessage(e, MessageId(history[k].channel, history[k].ts))

\* C29: re-indexing keeps metadata.  When startup_index runs after the
\* event of a message was handled, the entries of that message that hold a
\* resolved permalink are in the store as they were: same ids, texts and
\* metadata.
C29_ReindexKeepsMetadata ==
    [][(/\ pc = "ingest"
        /\ Len(ops') = Len(ops) + 1
        /\ ops'[Len(ops')].op = "startup_index")
       => \A k \in 1..Len(ops) : \A e \in store :
              (/\ ops[k].op = "handle_message"
               /\ ChunkOfMessage(e, ops[k].id)
               /\ e.metadata.permalink # "")
              => e \in store']_vars

====
